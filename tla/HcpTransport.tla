---------------------------- MODULE HcpTransport ----------------------------
(***************************************************************************)
(* The host side of HCP, the protocol between an application processor and *)
(* the BM-Lite fingerprint module: bmlite_tranceive, bmlite_send and       *)
(* bmlite_receive with their link layer _tx_link and _rx_link              *)
(* (BMLite_sdk/src/hcp_tiny.c), running against the module at the far end  *)
(* of the SPI bus.                                                         *)
(*                                                                         *)
(* The host cuts a command packet into frames, writes each one and waits   *)
(* for a four-byte ACK; it then reads the frames of the reply, a four-byte *)
(* header and a body with a CRC at a time, and acknowledges each.  Each    *)
(* read or write of the bus is one step; what the host computes between    *)
(* two of them belongs to the step before.                                 *)
(*                                                                         *)
(* A byte of a packet is a tuple <<src, call, i>>: byte i of the command   *)
(* ("cmd") or of the reply ("rsp") of a numbered call.  The CRC is taken   *)
(* to be perfect: it matches exactly when the body in txrx_buffer is whole *)
(* and as long as the header says.                                         *)
(*                                                                         *)
(* The module is external: it is modelled from what the host code expects  *)
(* of it.  Its output is a queue of units, one for each read the host is   *)
(* to make; the IRQ pin is high while that queue is not empty.             *)
(***************************************************************************)
EXTENDS Integers, Sequences

CONSTANTS
  MTU,           \* bytes in txrx_buffer, the largest link frame
  PKT_SIZE_MAX,  \* bytes in pkt_buffer (pkt_size_max)
  CmdSizes,      \* sizes of the command packets the application builds
  RspSizes,      \* sizes of the replies of the module
  Late,          \* what the module may send after the host has given up on it
  Untimed,       \* numbers of the calls made with phy_rx_timeout 0
  ResetOn,       \* results after which the caller resets the module
  Faults,        \* the disturbances of the bus that may happen
  MaxFaults,     \* bound on the number of disturbances
  MaxCalls       \* bound on the number of calls of bmlite_tranceive

OVERHEAD == 14            \* transport header (6), link header and CRC (8)
APP_MTU  == MTU - OVERHEAD
Results  == {"OK", "IO_ERROR", "NO_MEMORY", "TIMEOUT"}

ASSUME TransportAssumption ==
  /\ MTU \in Nat /\ MTU > OVERHEAD
  /\ PKT_SIZE_MAX \in Nat /\ PKT_SIZE_MAX > 0
  /\ CmdSizes \subseteq 1..PKT_SIZE_MAX
  /\ RspSizes \subseteq Nat \ {0}
  /\ Late \subseteq {"ack", "hdr", "body"}
  /\ Untimed \subseteq Nat
  /\ ResetOn \subseteq Results
  /\ Faults \subseteq {"corrupt", "spurious", "restart"}
  /\ MaxFaults \in Nat
  /\ MaxCalls \in Nat

\* Sizes and frame numbers fit the uint16_t fields and locals that hold them.
ASSUME WidthAssumption ==
  /\ PKT_SIZE_MAX < 65536 /\ MTU < 65536
  /\ \A n \in RspSizes : n < 65536

VARIABLES
  \* the host: the caller's packet, and the locals of the running function
  pc,          \* where the host is: "idle", "tx", "ack", "hdr" or "body"
  pkt_buffer,  \* hcp_comm->pkt_buffer, command and reply share it
  pkt_size,    \* hcp_comm->pkt_size
  txrx,        \* hcp_comm->txrx_buffer: lnk_size, the frame behind it, and
               \* the one lnk_size for which the CRC in it is right
  seq_nr,
  seq_len,
  data_left,   \* bytes of the command not yet cut into frames
  p,           \* offset in pkt_buffer of the next byte to send or store
  com_result,
  result,      \* what the last bmlite_tranceive returned; "NONE" after reset
  bep_result,  \* hcp_comm->bep_result
  \* the module
  mRx,         \* writes of the host the module has not looked at
  mTx,         \* units the module has put up for reading; IRQ = (mTx # <<>>)
  mCmd,        \* the command being assembled: its bytes and last frame
  mJob,        \* the reply being sent
  \* history and bounds
  call,        \* number of the running or last call
  cmdSize,     \* size of the command packet of each call
  rsp,         \* for each call the command the module executed and the size
               \* and status of its reply, if it did
  faults

host    == <<pc, pkt_buffer, pkt_size, txrx, seq_nr, seq_len, data_left, p,
             com_result, result, bep_result, call, cmdSize>>
module  == <<mRx, mTx, mCmd, mJob, rsp>>
vars    == <<host, module, faults>>

-----------------------------------------------------------------------------
(* Packets, frames, units *)

Calls == 1..MaxCalls

CmdPacket(c, n) == [i \in 1..n |-> <<"cmd", c, i>>]
RspPacket(c, n) == [i \in 1..n |-> <<"rsp", c, i>>]

\* A transport frame with the payload pld: number nr of len.
Frame(nr, len, pld) ==
  [t_size |-> Len(pld), t_seq_nr |-> nr, t_seq_len |-> len, t_pld |-> pld]

LinkSize(frm) == frm.t_size + 6

AckUnit      == [kind |-> "ack"]
HdrUnit(n)   == [kind |-> "hdr", size |-> n]
BodyUnit(f)  == [kind |-> "body", frm |-> f]
ZeroUnit     == [kind |-> "zero"]   \* bus idle low: every byte reads 0
NoiseUnit    == [kind |-> "noise"]  \* a unit the bus has damaged

\* What the host writes: a frame of a command, or the ACK of a frame.
FrameWrite(c, f) == [kind |-> "frame", call |-> c, frm |-> f]
AckWrite         == [kind |-> "ack"]

NoJob  == [phase |-> "none"]
NoCmd  == [nr |-> 0, bytes |-> <<>>]
NoRsp  == [size |-> 0, status |-> "OK", cmd |-> <<>>]
NoFrame == Frame(0, 0, <<>>)

\* No length at which the CRC in txrx_buffer is right; no header is that long.
NoCrc == MTU

\* seq_len of a packet of n bytes.  (The first counts whole frames only.)
FrameCountCut(n) == IF n < APP_MTU THEN 1 ELSE n \div APP_MTU
FrameCount(n) == (n \div APP_MTU) + 1

\* memcpy of pld into pkt_buffer at offset p.
Stored(pld) ==
  [i \in 1..PKT_SIZE_MAX |->
     IF i \in (p + 1)..(p + Len(pld)) THEN pld[i - p] ELSE pkt_buffer[i]]

-----------------------------------------------------------------------------
(* The decisions of the host.  Beside each a variant with a mistake in it, not *)
(* used by the specification, that shows which property would notice.          *)

\* p += t_size, in bmlite_send and in bmlite_receive
AdvanceForgotten(off, size) == off
Advance(off, size) == off + size

\* The answer to a frame is an ACK.
IsAckUnchecked(u) == TRUE
IsAck(u) == u = AckUnit

\* The frame a header announces does not fit into txrx_buffer.
TooLongByOne(size) == MTU <= size + 8
TooLong(size) == MTU < size + 8

\* The CRC in txrx_buffer is that of lnk_size bytes.
CrcIgnored(b) == TRUE
CrcMatches(b) == b.lnk_size = b.crc_size

\* The payload of a frame still fits into pkt_buffer.
FitsUnchecked(frm) == TRUE
Fits(frm) == p + frm.t_size < PKT_SIZE_MAX

\* bmlite_receive goes on with another frame.
MoreFramesIfRoom(frm, res) == frm.t_seq_nr < frm.t_seq_len /\ res # "NO_MEMORY"
MoreFrames(frm, res) == frm.t_seq_nr < frm.t_seq_len

-----------------------------------------------------------------------------
(* The ends of a call *)

\* bmlite_get_arg(ARG_RESULT) on what pkt_buffer holds: a reply begins with
\* its result, a command has none and leaves FPC_BEP_RESULT_OK.
BepResultOf(buf) ==
  IF buf[1][1] = "rsp" THEN rsp[buf[1][2]].status ELSE "OK"

\* bmlite_send fails: bmlite_tranceive returns without reading a reply.
SendFails(r) ==
  /\ pc' = "idle"
  /\ result' = r
  /\ UNCHANGED <<pkt_buffer, pkt_size, seq_nr, seq_len, data_left, p,
                 com_result, bep_result>>

\* bmlite_receive gives up in the middle: bmlite_tranceive still looks for the
\* result argument, in whatever pkt_buffer holds.
ReceiveFails(r) ==
  /\ pc' = "idle"
  /\ result' = r
  /\ bep_result' = BepResultOf(pkt_buffer)
  /\ UNCHANGED <<pkt_buffer, pkt_size, seq_nr, seq_len, data_left, p,
                 com_result>>

\* The module is not about to put up anything by itself.
ModuleSilent ==
  /\ mTx = <<>>
  /\ mRx = <<>>
  /\ mJob.phase \in {"none", "await"}

\* platform_bmlite_receive can end without a unit of this kind: IRQ is low, and
\* either the unit never comes or the module may be too slow with it.
MayGiveUp(kind) == mTx = <<>> /\ (ModuleSilent \/ kind \in Late)

\* Its timeout is 500 ms for an ACK, 100 ms for a body and phy_rx_timeout for a
\* header; a timeout of 0 never passes.
HasTimeout(kind) == kind # "hdr" \/ call \notin Untimed

TimesOut(kind) == MayGiveUp(kind) /\ HasTimeout(kind)

-----------------------------------------------------------------------------
(* Host: bmlite_send and _tx_link *)

\* bmlite_tranceive on a command packet of n bytes that bmlite_init_cmd and
\* bmlite_add_arg have built in pkt_buffer.
Tranceive(n) ==
  /\ pc = "idle"
  /\ call < MaxCalls
  /\ result \notin ResetOn
  /\ call' = call + 1
  /\ cmdSize' = [cmdSize EXCEPT ![call + 1] = n]
  /\ pkt_buffer' = [i \in 1..PKT_SIZE_MAX |->
                      IF i <= n THEN <<"cmd", call + 1, i>> ELSE pkt_buffer[i]]
  /\ pkt_size' = n
  /\ seq_nr' = 1
  /\ seq_len' = FrameCount(n)
  /\ data_left' = n
  /\ p' = 0
  /\ pc' = "tx"
  /\ UNCHANGED <<txrx, com_result, result, bep_result, module, faults>>

\* One turn of the loop of bmlite_send up to the write of _tx_link.
TxLinkWrite ==
  /\ pc = "tx"
  /\ LET t_size == IF data_left < APP_MTU THEN data_left ELSE APP_MTU
         frm    == Frame(seq_nr, seq_len, SubSeq(pkt_buffer, p + 1, p + t_size))
     IN  /\ txrx' = [lnk_size |-> LinkSize(frm), frm |-> frm,
                      crc_size |-> LinkSize(frm)]
         /\ p' = Advance(p, t_size)
         /\ data_left' = data_left - t_size
         /\ mRx' = Append(mRx, FrameWrite(call, frm))
  /\ pc' = "ack"
  /\ UNCHANGED <<pkt_buffer, pkt_size, seq_nr, seq_len, com_result, result,
                 bep_result, call, cmdSize, mTx, mCmd, mJob, rsp, faults>>

\* _tx_link reads the ACK.  Anything else in its place ends the call; the last
\* ACK lets bmlite_tranceive go on to bmlite_receive, whose locals start afresh.
TxLinkAck ==
  /\ pc = "ack"
  /\ mTx # <<>>
  /\ mTx' = Tail(mTx)
  /\ \/ /\ ~IsAck(Head(mTx))
        /\ SendFails("IO_ERROR")
     \/ /\ IsAck(Head(mTx))
        /\ seq_nr < seq_len
        /\ seq_nr' = seq_nr + 1
        /\ pc' = "tx"
        /\ UNCHANGED <<pkt_buffer, pkt_size, seq_len, data_left, p, com_result,
                       result, bep_result>>
     \/ /\ IsAck(Head(mTx))
        /\ seq_nr = seq_len
        /\ seq_nr' = 0
        /\ seq_len' = 1
        /\ p' = 0
        /\ com_result' = "OK"
        /\ pc' = "hdr"
        /\ UNCHANGED <<pkt_buffer, pkt_size, data_left, result, bep_result>>
  /\ UNCHANGED <<txrx, call, cmdSize, mRx, mCmd, mJob, rsp, faults>>

\* No ACK in 500 ms: _tx_link turns the TIMEOUT of the read into IO_ERROR.
TxLinkAckTimeout ==
  /\ pc = "ack"
  /\ TimesOut("ack")
  /\ SendFails("IO_ERROR")
  /\ UNCHANGED <<txrx, call, cmdSize, module, faults>>

-----------------------------------------------------------------------------
(* Host: bmlite_receive and _rx_link *)

\* The lnk_size a four-byte read finds in a unit: an ACK reads as 0x7f01, the
\* start of a body as its t_seq_nr.
HeaderSize(u) ==
  CASE u.kind = "hdr"  -> u.size
    [] u.kind = "body" -> u.frm.t_seq_nr
    [] u.kind = "zero" -> 0
    [] OTHER           -> MTU

\* _rx_link reads the header of a frame; one too long for txrx_buffer ends the
\* call.
RxLinkHeader ==
  /\ pc = "hdr"
  /\ mTx # <<>>
  /\ mTx' = Tail(mTx)
  /\ LET size == HeaderSize(Head(mTx))
     IN  /\ txrx' = [txrx EXCEPT !.lnk_size = size]
         /\ \/ /\ TooLong(size)
               /\ ReceiveFails("IO_ERROR")
            \/ /\ ~TooLong(size)
               /\ pc' = "body"
               /\ UNCHANGED <<pkt_buffer, pkt_size, seq_nr, seq_len, data_left,
                              p, com_result, result, bep_result>>
  /\ UNCHANGED <<call, cmdSize, mRx, mCmd, mJob, rsp, faults>>

\* (with the mistake that bmlite_receive goes on waiting)
RxLinkHeaderRetry == pc = "hdr" /\ TimesOut("hdr") /\ UNCHANGED vars

\* The one timeout bmlite_tranceive returns as such.
NoHeader ==
  /\ pc = "hdr"
  /\ ReceiveFails("TIMEOUT")
  /\ UNCHANGED <<txrx, call, cmdSize, module, faults>>

\* No header in phy_rx_timeout.
RxLinkHeaderTimeout == TimesOut("hdr") /\ NoHeader

\* A press of the button ends the wait for a header as if its timeout had passed,
\* also one without.  (One in the wait for an ACK or a body does no more than the
\* timeout which these always have.)
ButtonEndsWait == MayGiveUp("hdr") /\ NoHeader

\* txrx_buffer after the body of a frame has been read into it from unit u.
\* A body of size 0 is four zero bytes: they clear t_size and t_seq_nr, leave
\* the rest, and are their own CRC.
BodyRead(u) ==
  CASE u.kind = "body" ->
         [txrx EXCEPT !.frm = u.frm, !.crc_size = LinkSize(u.frm)]
    [] u.kind = "zero" /\ txrx.lnk_size = 0 ->
         [txrx EXCEPT !.frm = Frame(0, txrx.frm.t_seq_len, <<>>),
                      !.crc_size = 0]
    [] OTHER ->
         [txrx EXCEPT !.crc_size = NoCrc]

\* bmlite_receive after _rx_link returned OK with the frame in txrx_buffer b:
\* store the payload if it is consistent and fits, and go on until the frame
\* says it is the last.
Reassemble(b) ==
  LET frm   == b.frm
      sound == frm.t_size = b.lnk_size - 6
      stored == sound /\ Fits(frm)
  IN /\ seq_nr' = frm.t_seq_nr
     /\ seq_len' = frm.t_seq_len
     /\ pkt_buffer' = IF stored THEN Stored(frm.t_pld) ELSE pkt_buffer
     /\ p' = IF stored THEN Advance(p, frm.t_size) ELSE p
     /\ com_result' = IF ~sound THEN "IO_ERROR"
                      ELSE IF ~Fits(frm) THEN "NO_MEMORY" ELSE com_result
     /\ \/ /\ MoreFrames(frm, com_result')
           /\ pc' = "hdr"
           /\ UNCHANGED <<pkt_size, result, bep_result>>
        \/ /\ ~MoreFrames(frm, com_result')
           /\ pc' = "idle"
           /\ pkt_size' = p'
           /\ result' = com_result'
           /\ bep_result' = BepResultOf(pkt_buffer')
     /\ UNCHANGED data_left

\* _rx_link after the read of the body: a wrong CRC ends the call, a right one
\* is acknowledged.
CheckCrc(b) ==
  /\ txrx' = b
  /\ \/ /\ ~CrcMatches(b)
        /\ ReceiveFails("IO_ERROR")
        /\ UNCHANGED mRx
     \/ /\ CrcMatches(b)
        /\ mRx' = Append(mRx, AckWrite)
        /\ Reassemble(b)

RxLinkBody ==
  /\ pc = "body"
  /\ mTx # <<>>
  /\ mTx' = Tail(mTx)
  /\ CheckCrc(BodyRead(Head(mTx)))
  /\ UNCHANGED <<call, cmdSize, mCmd, mJob, rsp, faults>>

\* No body in 100 ms.  _rx_link ignores the result of this read and checks the
\* CRC of what txrx_buffer held before.
RxLinkBodyTimeout ==
  /\ pc = "body"
  /\ TimesOut("body")
  /\ CheckCrc(txrx)
  /\ UNCHANGED <<call, cmdSize, mTx, mCmd, mJob, rsp, faults>>

\* The caller answers a failed call with platform_bmlite_reset.
HwReset ==
  /\ pc = "idle"
  /\ result \in ResetOn
  /\ result' = "NONE"
  /\ mRx' = <<>>
  /\ mTx' = <<>>
  /\ mCmd' = NoCmd
  /\ mJob' = NoJob
  /\ UNCHANGED <<pc, pkt_buffer, pkt_size, txrx, seq_nr, seq_len, data_left, p,
                 com_result, bep_result, call, cmdSize, rsp, faults>>

-----------------------------------------------------------------------------
(* The module *)

\* The module looks at writes of the host when it has put up what it had to.
Listening == mJob.phase \in {"none", "await"}

\* A frame of a command: acknowledged if it is the first or the next one.  It
\* ends a reply that is being sent.  The last frame completes the command, and
\* the module decides on a reply.
ModuleTakesFrame ==
  /\ mRx # <<>>
  /\ Listening
  /\ Head(mRx).kind = "frame"
  /\ mRx' = Tail(mRx)
  /\ LET w    == Head(mRx)
         frm  == w.frm
         next == frm.t_seq_nr = 1 \/ frm.t_seq_nr = mCmd.nr + 1
         bytes == IF frm.t_seq_nr = 1 THEN frm.t_pld
                  ELSE mCmd.bytes \o frm.t_pld
     IN \/ /\ ~next
           /\ mCmd' = NoCmd
           /\ mJob' = NoJob
           /\ UNCHANGED <<mTx, rsp>>
        \/ /\ next
           /\ frm.t_seq_nr < frm.t_seq_len
           /\ mTx' = Append(mTx, AckUnit)
           /\ mCmd' = [nr |-> frm.t_seq_nr, bytes |-> bytes]
           /\ mJob' = NoJob
           /\ UNCHANGED rsp
        \/ /\ next
           /\ frm.t_seq_nr = frm.t_seq_len
           /\ mTx' = Append(mTx, AckUnit)
           /\ mCmd' = [nr |-> frm.t_seq_nr, bytes |-> bytes]
           /\ \E size \in RspSizes, status \in {"OK", "FAILED"} :
                rsp' = [rsp EXCEPT ![w.call] =
                          [size |-> size, status |-> status, cmd |-> bytes]]
           /\ mJob' = [phase |-> "hdr", call |-> w.call, nr |-> 1, sent |-> 0]
  /\ UNCHANGED <<host, faults>>

\* The frame of the reply the module is to send now.
ReplyFrame ==
  LET size == rsp[mJob.call].size
      left == size - mJob.sent
      n    == IF left < APP_MTU THEN left ELSE APP_MTU
  IN  Frame(mJob.nr, FrameCount(size),
            SubSeq(RspPacket(mJob.call, size), mJob.sent + 1, mJob.sent + n))

ModulePutsHeader ==
  /\ mJob.phase = "hdr"
  /\ mTx' = Append(mTx, HdrUnit(LinkSize(ReplyFrame)))
  /\ mJob' = [mJob EXCEPT !.phase = "body"]
  /\ UNCHANGED <<host, mRx, mCmd, rsp, faults>>

ModulePutsBody ==
  /\ mJob.phase = "body"
  /\ mTx' = Append(mTx, BodyUnit(ReplyFrame))
  /\ mJob' = [mJob EXCEPT !.phase = "await"]
  /\ UNCHANGED <<host, mRx, mCmd, rsp, faults>>

\* The ACK of a frame of the reply; one that comes when no reply is being sent
\* is ignored.
ModuleTakesAck ==
  /\ mRx # <<>>
  /\ Listening
  /\ Head(mRx).kind = "ack"
  /\ mRx' = Tail(mRx)
  /\ \/ /\ mJob.phase = "none"
        /\ UNCHANGED mJob
     \/ /\ mJob.phase = "await"
        /\ ReplyFrame.t_seq_nr = ReplyFrame.t_seq_len
        /\ mJob' = NoJob
     \/ /\ mJob.phase = "await"
        /\ ReplyFrame.t_seq_nr < ReplyFrame.t_seq_len
        /\ mJob' = [mJob EXCEPT !.phase = "hdr", !.nr = mJob.nr + 1,
                                !.sent = mJob.sent + ReplyFrame.t_size]
  /\ UNCHANGED <<host, mTx, mCmd, rsp, faults>>

-----------------------------------------------------------------------------
(* What can go wrong on the bus *)

Fault(kind) ==
  /\ kind \in Faults
  /\ faults < MaxFaults
  /\ faults' = faults + 1

\* A write of the host arrives damaged, and the module drops it.
CorruptWrite ==
  /\ Fault("corrupt")
  /\ mRx # <<>>
  /\ mRx' = Tail(mRx)
  /\ UNCHANGED <<host, mTx, mCmd, mJob, rsp>>

\* The host will read something else than what the module put up: a header,
\* which no CRC covers, with another size; or noise.
CorruptRead ==
  /\ Fault("corrupt")
  /\ mTx # <<>>
  /\ \E u \in {NoiseUnit} \cup {HdrUnit(n) : n \in 0..(MTU - 7)} :
       /\ u # Head(mTx)
       /\ u.kind = "hdr" => Head(mTx).kind = "hdr"
       /\ mTx' = <<u>> \o Tail(mTx)
  /\ UNCHANGED <<host, mRx, mCmd, mJob, rsp>>

\* IRQ goes up for one read although the module has nothing to send.
SpuriousIrq ==
  /\ Fault("spurious")
  /\ mTx = <<>>
  /\ mTx' = <<ZeroUnit>>
  /\ UNCHANGED <<host, mRx, mCmd, mJob, rsp>>

\* The module restarts and forgets everything; unless bodies may come late, not
\* between the header and the body of a frame.
ModuleRestart ==
  /\ Fault("restart")
  /\ "body" \in Late \/ (mJob.phase # "body" /\ pc # "body")
  /\ mRx' = <<>>
  /\ mTx' = <<>>
  /\ mCmd' = NoCmd
  /\ mJob' = NoJob
  /\ UNCHANGED <<host, rsp>>

-----------------------------------------------------------------------------

Init ==
  /\ pc = "idle"
  /\ pkt_buffer = [i \in 1..PKT_SIZE_MAX |-> <<"none", 0, i>>]
  /\ pkt_size = 0
  /\ txrx = [lnk_size |-> 0, frm |-> NoFrame, crc_size |-> NoCrc]
  /\ seq_nr = 0
  /\ seq_len = 1
  /\ data_left = 0
  /\ p = 0
  /\ com_result = "OK"
  /\ result = "NONE"
  /\ bep_result = "OK"
  /\ mRx = <<>>
  /\ mTx = <<>>
  /\ mCmd = NoCmd
  /\ mJob = NoJob
  /\ call = 0
  /\ cmdSize = [c \in Calls |-> 0]
  /\ rsp = [c \in Calls |-> NoRsp]
  /\ faults = 0

HostWaits == \/ TxLinkAck \/ TxLinkAckTimeout
             \/ RxLinkHeader \/ RxLinkHeaderTimeout
             \/ RxLinkBody \/ RxLinkBodyTimeout

HostStep == \/ \E n \in CmdSizes : Tranceive(n)
            \/ TxLinkWrite \/ HostWaits \/ ButtonEndsWait \/ HwReset

ModuleStep == \/ ModuleTakesFrame \/ ModuleTakesAck
              \/ ModulePutsHeader \/ ModulePutsBody

BusFault == CorruptWrite \/ CorruptRead \/ SpuriousIrq \/ ModuleRestart

\* All calls made, and nothing left to do for the module.
Finished ==
  /\ pc = "idle"
  /\ call = MaxCalls
  /\ UNCHANGED vars

Next == HostStep \/ ModuleStep \/ BusFault \/ Finished

Spec == Init /\ [][Next]_vars

\* The processor runs on, and a module that is to send something does so.  Nobody
\* has to press the button.
Fairness == WF_vars(TxLinkWrite \/ HostWaits) /\ WF_vars(ModuleStep)

FairSpec == Spec /\ Fairness

-----------------------------------------------------------------------------
(* Properties *)

Bytes == ({"none"} \X {0} \X Nat) \cup ({"cmd", "rsp"} \X Calls \X Nat)

Frames == [t_size : Nat, t_seq_nr : Nat, t_seq_len : Nat, t_pld : Seq(Bytes)]

Units == [kind : {"ack", "zero", "noise"}] \cup [kind : {"hdr"}, size : Nat]
         \cup [kind : {"body"}, frm : Frames]

Writes == [kind : {"ack"}] \cup [kind : {"frame"}, call : Calls, frm : Frames]

Jobs == [phase : {"none"}]
        \cup [phase : {"hdr", "body", "await"}, call : Calls, nr : Nat, sent : Nat]

Answers == [size : Nat, status : {"OK", "FAILED"}, cmd : Seq(Bytes)]

HostTypes ==
  /\ pc \in {"idle", "tx", "ack", "hdr", "body"}
  /\ pkt_size \in 0..PKT_SIZE_MAX
  /\ seq_nr \in Nat
  /\ seq_len \in Nat
  /\ data_left \in 0..PKT_SIZE_MAX
  /\ p \in 0..PKT_SIZE_MAX
  /\ com_result \in Results
  /\ result \in Results \cup {"NONE"}
  /\ call \in 0..MaxCalls
  /\ pc # "idle" => call \in Calls
  /\ faults \in 0..MaxFaults

BufferTypes ==
  /\ pkt_buffer \in [1..PKT_SIZE_MAX -> Bytes]
  /\ txrx \in [lnk_size : Nat, frm : Frames, crc_size : Nat]
  /\ bep_result \in {"OK", "FAILED"}

BusTypes ==
  /\ mRx \in Seq(Writes)
  /\ mTx \in Seq(Units)

ModuleTypes ==
  /\ mCmd \in [nr : Nat, bytes : Seq(Bytes)]
  /\ mJob \in Jobs
  /\ cmdSize \in [Calls -> 0..PKT_SIZE_MAX]
  /\ rsp \in [Calls -> Answers]

\* The types of the locals of hcp_tiny.c and the fields of HCP_comm_t, of what
\* is on the bus and of what the module knows; no offset or size ever passes the
\* end of pkt_buffer.
TypeOK == HostTypes /\ BufferTypes /\ BusTypes /\ ModuleTypes

\* Once the module has acknowledged the last frame nothing of the command is left
\* over, and at no time has a frame taken more than was left: the count of frames
\* (bmlite_send 254) agrees with the way they are cut (261-269) for every size,
\* multiples of the frame size included.
SentWhole ==
  /\ pc \in {"hdr", "body"} => data_left = 0
  /\ pc \in {"tx", "ack"} => p + data_left = pkt_size

\* A command the module executes is the packet its caller built, byte for byte,
\* however it was cut into frames (bmlite_send 251-272), whatever calls were
\* broken off before.
CommandIntact ==
  \A c \in Calls : rsp[c] # NoRsp => rsp[c].cmd = CmdPacket(c, cmdSize[c])

\* When bmlite_tranceive returns OK, pkt_buffer holds the whole reply of the
\* module to this very call, pkt_size is its size and bep_result its status
\* (bmlite_receive 169-200, bmlite_tranceive 149-153); never bytes left behind
\* by an earlier frame or call.
ReplyIsOurs ==
  pc = "idle" /\ result = "OK" =>
    /\ rsp[call] # NoRsp
    /\ pkt_size = rsp[call].size
    /\ SubSeq(pkt_buffer, 1, pkt_size) = RspPacket(call, rsp[call].size)
    /\ bep_result = rsp[call].status

\* A call that returns OK or NO_MEMORY has read its reply to the end, frames it
\* had no room for included (bmlite_receive 179-185): nothing of it is left for
\* the next call to read, so these results need no reset.
ReplyDrained ==
  pc = "idle" /\ result \in {"OK", "NO_MEMORY"} =>
    /\ \A i \in DOMAIN mTx : mTx[i].kind \notin {"ack", "hdr", "body"}
    /\ mJob.phase \in {"none", "await"}
    /\ mJob.phase = "await" => ReplyFrame.t_seq_nr = ReplyFrame.t_seq_len

\* With a prompt module and a quiet bus a call fails only for want of room, and
\* then says so, whatever the number of frames either way (bmlite_send 251-272,
\* bmlite_receive 169-200, the size check of _rx_link 218).
CleanExchangeSucceeds ==
  pc = "idle" /\ call > 0 =>
    \/ result = "OK" /\ rsp[call].size <= PKT_SIZE_MAX
    \/ result = "NO_MEMORY" /\ rsp[call].size >= PKT_SIZE_MAX

\* Every call of bmlite_tranceive with a timeout returns, whatever is late, lost or
\* damaged.  One with phy_rx_timeout 0 (platform.c 63-64) returns or comes to wait
\* for a header while nothing is on its way either way and the module has nothing
\* to send: no other wait of a call lasts for ever, in particular none while the
\* module waits too, for an ACK or the rest of a command.
EveryCallReturns ==
  pc # "idle" ~> \/ pc = "idle"
                 \/ call \in Untimed /\ pc = "hdr" /\ ModuleSilent

Exchange == INSTANCE HcpExchange WITH
  busy    <- pc # "idle",
  answer  <- rsp,
  outcome <- result,
  reply   <- IF pc = "idle" /\ result = "OK"
             THEN [bytes  |-> SubSeq(pkt_buffer, 1, pkt_size),
                   status |-> bep_result]
             ELSE [bytes |-> <<>>, status |-> "NONE"]

\* The transport keeps the promise of HcpExchange: commands are executed whole
\* and at most once, replies are those of the running call, and each error means
\* what hcp_tiny.h says it does.
ImplementsExchange == Exchange!Spec

=============================================================================
