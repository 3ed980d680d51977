------------------------- MODULE HcpExchangeProofs -------------------------
(***************************************************************************)
(* Proofs that the exchanges of HcpTransport are sound for every MTU,      *)
(* packet size, set of sizes and bound, and every set of faults, when the  *)
(* module never sends a body late and the caller resets it after           *)
(* IO_ERROR and TIMEOUT (Recovers).                                        *)
(*                                                                         *)
(* None of the properties is inductive: what a call returns rests on what  *)
(* was on the bus when it began, on the step the module had reached with   *)
(* each frame, and on where the frames it sent so far lie in pkt_buffer.   *)
(* SafeInv says all that.  Its central part is about a reply under way:    *)
(* the bodies on the bus are frames of the reply to the running call, in   *)
(* order and none of them behind p (Stream), and as long as com_result is  *)
(* OK there is just the next frame on its way and p is where it belongs    *)
(* (Exact).                                                                *)
(*                                                                         *)
(* The same invariant shows that the transport implements HcpExchange.  On *)
(* a quiet bus with a prompt module (Prompt) a second one, CleanInv, says  *)
(* what is to be read next, and with it that no call fails.                *)
(***************************************************************************)
EXTENDS HcpTransportProofs

\* The module is never so slow with a body that _rx_link goes on without it,
\* and the caller follows each IO_ERROR and TIMEOUT by a reset.
Recovers == "body" \notin Late /\ {"IO_ERROR", "TIMEOUT"} \subseteq ResetOn

-----------------------------------------------------------------------------
(* The inductive invariant *)

\* Offset of frame nr in its packet.
Off(nr) == (nr - 1) * APP_MTU

\* Frame nr of the reply of n bytes to call c: its size, payload and whole.
PartLen(n, nr) == IF n - Off(nr) < APP_MTU THEN n - Off(nr) ELSE APP_MTU

PartBytes(c, n, nr) ==
  SubSeq(RspPacket(c, n), Off(nr) + 1, Off(nr) + PartLen(n, nr))

ReplyPart(c, n, nr) == Frame(nr, FrameCount(n), PartBytes(c, n, nr))

\* The last call failed in a way that leaves the module anywhere.
Failing == pc = "idle" /\ result \in {"IO_ERROR", "TIMEOUT"}

\* Neither on the bus nor in the module is there anything left of a reply.
Quiet ==
  /\ Len(mTx) <= 1
  /\ \A i \in 1..Len(mTx) : mTx[i].kind \notin {"ack", "hdr", "body"}
  /\ mJob.phase \in {"none", "await"}
  /\ mJob.phase = "await" => mJob.nr = FrameCount(rsp[mJob.call].size)

Executed == rsp[call] # NoRsp

\* The module has executed commands of calls made, and no others.
RspInv ==
  /\ \A c \in Calls : c > call => rsp[c] = NoRsp
  /\ \A c \in Calls : rsp[c] # NoRsp => rsp[c].size \in RspSizes

\* A call begins on a quiet bus.
Between == pc = "idle" /\ ~Failing => Quiet

\* While it is sent the command is in pkt_buffer.
Building ==
  pc \in {"tx", "ack"} =>
    /\ pkt_size = cmdSize[call]
    /\ \A i \in 1..pkt_size : pkt_buffer[i] = <<"cmd", call, i>>
    /\ seq_nr >= 1
    /\ seq_nr <= seq_len

\* If the module takes the frame about to be sent for the next one, it has all
\* that comes before it.
Sending ==
  pc = "tx" =>
    /\ Quiet
    /\ ~Executed
    /\ seq_nr = 1 => p = 0
    /\ seq_nr > 1 /\ mCmd.nr + 1 = seq_nr => mCmd.bytes = CmdPacket(call, p)

\* A frame the module has not looked at is the last thing the host wrote.
FrameSent(w) ==
  /\ pc = "ack" \/ Failing
  /\ w.call = call
  /\ w.frm.t_seq_nr = seq_nr
  /\ w.frm.t_seq_len = seq_len
  /\ seq_nr >= 1
  /\ w.frm.t_size = Len(w.frm.t_pld)
  /\ w.frm.t_size <= p
  /\ \A j \in 1..w.frm.t_size :
       w.frm.t_pld[j] = <<"cmd", call, (p - w.frm.t_size) + j>>
  /\ seq_nr = 1 => p = w.frm.t_size
  /\ seq_nr = seq_len => p = cmdSize[call]
  /\ seq_nr > 1 /\ mCmd.nr + 1 = seq_nr =>
       mCmd.bytes = CmdPacket(call, p - w.frm.t_size)
  /\ ~Executed
  /\ pc = "ack" => Quiet

Written ==
  \A i \in 1..Len(mRx) :
    mRx[i].kind = "frame" => i = Len(mRx) /\ FrameSent(mRx[i])

\* An ACK on the bus is the one the host waits for: the module has what was sent.
Acked ==
  \A i \in 1..Len(mTx) : mTx[i].kind = "ack" =>
    /\ pc = "ack" \/ Failing
    /\ pc = "ack" =>
         /\ Len(mRx) = 0
         /\ mCmd.bytes = CmdPacket(call, p)
         /\ \A j \in (i + 1)..Len(mTx) : mTx[j].kind # "ack"
         /\ seq_nr < seq_len =>
              i = Len(mTx) /\ mJob.phase = "none" /\ ~Executed

\* The CRC in txrx_buffer is that of the frame there, or of four zero bytes.
Read ==
  pc \in {"ack", "hdr", "body"} =>
    /\ txrx.frm.t_seq_len >= 1
    /\ \/ txrx.crc_size = LinkSize(txrx.frm)
       \/ /\ txrx.crc_size = 0
          /\ txrx.frm.t_size = 0
          /\ txrx.frm.t_seq_nr = 0

\* The module has acknowledged the last frame of the command.
Replying ==
  \/ pc \in {"hdr", "body"}
  \/ /\ pc = "ack"
     /\ seq_nr = seq_len
     /\ \E i \in 1..Len(mTx) : mTx[i].kind = "ack"

Size  == rsp[call].size
Count == FrameCount(Size)

\* Bytes of the reply stored, and number of the frame last read.
Got == IF pc = "ack" THEN 0 ELSE p
Had == IF pc = "ack" THEN 0 ELSE seq_nr

\* The module sends the reply to the running call, and frames still to be read.
Job ==
  mJob.phase # "none" =>
    /\ mJob.call = call
    /\ mJob.nr \in 1..Count
    /\ mJob.sent = Off(mJob.nr)
    /\ mJob.phase = "await" => Got <= Off(mJob.nr) + APP_MTU
    /\ mJob.phase # "await" => Got <= Off(mJob.nr)

\* The bodies on the bus are frames of that reply, in order, none of them of
\* bytes before p, and only the last has nothing behind it.
BodyOf(i) ==
  LET nr == mTx[i].frm.t_seq_nr
  IN  /\ nr \in 1..Count
      /\ mTx[i].frm = ReplyPart(call, Size, nr)
      /\ Got <= Off(nr)
      /\ mJob.phase # "none" => nr <= mJob.nr
      /\ mJob.phase \in {"hdr", "body"} => nr < mJob.nr
      /\ i < Len(mTx) => nr < Count

Stream ==
  /\ \A i \in 1..Len(mTx) : mTx[i].kind = "body" => BodyOf(i)
  /\ \A i, j \in 1..Len(mTx) :
       i < j /\ mTx[i].kind = "body" /\ mTx[j].kind = "body" =>
         mTx[i].frm.t_seq_nr < mTx[j].frm.t_seq_nr

\* A body follows each header and a header each body; only the unit next to be
\* read may be damaged.
Alternate ==
  /\ \A i \in 2..Len(mTx) : mTx[i].kind \in {"ack", "hdr", "body"}
  /\ \A i \in 1..(Len(mTx) - 1) :
       /\ mTx[i].kind = "hdr" => mTx[i + 1].kind = "body"
       /\ mTx[i].kind \in {"body", "ack"} => mTx[i + 1].kind = "hdr"
  /\ Len(mTx) > 0 =>
       /\ mTx[Len(mTx)].kind = "hdr" => mJob.phase = "body"
       /\ mTx[Len(mTx)].kind \in {"ack", "body"} => mJob.phase # "body"

\* As long as nothing went wrong the host has all frames up to Had in its buffer,
\* and the module is at the next one.
Exact ==
  pc = "ack" \/ com_result = "OK" =>
    /\ pc # "ack" => /\ p = Off(seq_nr) + APP_MTU
                     /\ seq_nr < Count
                     /\ \A i \in 1..p : pkt_buffer[i] = <<"rsp", call, i>>
    /\ \A i \in 1..Len(mTx) :
         mTx[i].kind = "body" => mTx[i].frm.t_seq_nr = Had + 1
    /\ mJob.phase \in {"hdr", "body"} => mJob.nr = Had + 1 /\ Len(mRx) = 0
    /\ mJob.phase = "await" => \/ mJob.nr = Had + 1 /\ Len(mRx) = 0
                               \/ mJob.nr = Had /\ Len(mRx) <= 1

Reply == Replying => Executed /\ Job /\ Stream /\ Alternate /\ Exact

\* What the next read but for a spurious one finds is a body.
NextIsBody ==
  \/ Len(mTx) > 0 /\ mTx[1].kind = "body"
  \/ Len(mTx) > 1 /\ mTx[1].kind = "zero" /\ mTx[2].kind = "body"
  \/ /\ Len(mTx) = 0 \/ (Len(mTx) = 1 /\ mTx[1].kind = "zero")
     /\ mJob.phase = "body"

\* The host reads a body as a header only after an empty frame, and waits for a
\* body that never comes only if an empty one is all that would match.
InStep ==
  /\ pc = "hdr" /\ NextIsBody => txrx.crc_size = 0
  /\ pc = "body" =>
       /\ txrx.lnk_size + 8 <= MTU
       /\ \/ txrx.lnk_size = 0
          \/ txrx.crc_size = 0
          \/ Len(mTx) > 0
          \/ mJob.phase = "body"

\* com_result is set to NO_MEMORY for want of room only.
Com ==
  pc \in {"hdr", "body"} =>
    /\ com_result # "TIMEOUT"
    /\ com_result = "NO_MEMORY" => Size >= PKT_SIZE_MAX

\* What a result says of the reply.
Done ==
  pc = "idle" =>
    /\ result = "OK" => call \in Calls /\ ReplyIsOurs
    /\ result = "NO_MEMORY" => /\ call \in Calls
                               /\ Executed
                               /\ Size >= PKT_SIZE_MAX

SafeInv ==
  /\ CommandIntact /\ RspInv /\ Between /\ Building /\ Sending /\ Written
  /\ Acked /\ Read /\ Reply /\ InStep /\ Com /\ Done

-----------------------------------------------------------------------------
(* Where the frames of a packet lie *)

\* Offsets go up by a frame at a time, beginning with 0 for frame 1.
LEMMA OffStep ==
  /\ Off(1) = 0
  /\ \A nr \in Nat : Off(nr) \in Int /\ Off(nr + 1) = Off(nr) + APP_MTU
<1>1. ASSUME NEW nr \in Nat
      PROVE  Off(nr) \in Int /\ Off(nr + 1) = Off(nr) + APP_MTU
  <2> DEFINE m == nr - 1
  <2>1. m \in Int /\ (nr + 1) - 1 = m + 1 /\ APP_MTU \in Int
    BY MtuFacts
  <2> HIDE DEF m
  <2>2. (m + 1) * APP_MTU = m * APP_MTU + APP_MTU /\ m * APP_MTU \in Int
    BY <2>1
  <2> QED
    BY <2>1, <2>2 DEF Off, m
<1>2. Off(1) = 0
  BY MtuFacts DEF Off
<1> QED
  BY <1>1, <1>2

\* The frame before the first would begin a frame below 0.
LEMMA OffZero == Off(0) + APP_MTU = 0
BY OffStep, MtuFacts

\* Frames do not overlap.
LEMMA OffMono ==
  ASSUME NEW a \in Nat, NEW b \in Nat, a < b
  PROVE  Off(a) + APP_MTU <= Off(b)
<1> DEFINE k == b - a - 1
           m == a - 1
<1>1. k \in Nat /\ m \in Int /\ b - 1 = (m + 1) + k /\ APP_MTU \in Nat
  BY MtuFacts
<1> HIDE DEF k, m
<1>2. k * APP_MTU >= 0 /\ k * APP_MTU \in Int
  BY <1>1
<1>3. ((m + 1) + k) * APP_MTU = m * APP_MTU + APP_MTU + k * APP_MTU
  BY <1>1
<1>4. m * APP_MTU \in Int
  BY <1>1
<1> QED
  BY <1>1, <1>2, <1>3, <1>4 DEF Off, m

\* All frames of a packet but the last are full, and the last one ends with it.
LEMMA FrameEnds ==
  ASSUME NEW n \in Nat, NEW nr \in 1..FrameCount(n)
  PROVE  /\ FrameCount(n) \in Nat
         /\ Off(nr) \in Nat
         /\ Off(nr) <= n
         /\ nr < FrameCount(n) => Off(nr) + APP_MTU <= n
         /\ nr = FrameCount(n) => n < Off(nr) + APP_MTU
<1> DEFINE q == n \div APP_MTU
<1>1. q \in Nat /\ FrameCount(n) = q + 1
  BY DivStep DEF FrameCount
<1>2. APP_MTU * q <= n /\ n < APP_MTU * q + APP_MTU
  BY MtuFacts
<1> HIDE DEF q
<1>3. APP_MTU * q = q * APP_MTU /\ q * APP_MTU \in Nat
  BY <1>1, MtuFacts
<1>4. Off(q + 1) = q * APP_MTU
  BY <1>1 DEF Off
<1>5. Off(nr) \in Int /\ Off(nr) >= 0
  <2>1. CASE nr = 1
    BY <2>1, OffStep
  <2>2. CASE nr > 1
    <3>1. Off(1) + APP_MTU <= Off(nr)
      BY <2>2, <1>1, OffMono
    <3> QED
      BY <3>1, <1>1, OffStep, MtuFacts
  <2> QED
    BY <2>1, <2>2, <1>1
<1>6. CASE nr = q + 1
  BY <1>1, <1>2, <1>3, <1>4, <1>5, <1>6
<1>7. CASE nr < q + 1
  BY <1>1, <1>2, <1>3, <1>4, <1>5, <1>7, OffMono, MtuFacts
<1> QED
  BY <1>1, <1>6, <1>7

\* The size of a frame of a reply agrees with its number.
LEMMA PartLength ==
  ASSUME NEW n \in Nat, NEW nr \in 1..FrameCount(n)
  PROVE  /\ Off(nr) \in Nat
         /\ PartLen(n, nr) \in Nat
         /\ Off(nr) + PartLen(n, nr) <= n
         /\ nr < FrameCount(n) => PartLen(n, nr) = APP_MTU
         /\ nr = FrameCount(n) => Off(nr) + PartLen(n, nr) = n
BY FrameEnds, MtuFacts DEF PartLen

\* Its payload is the reply from its offset on.
LEMMA PartContents ==
  ASSUME NEW c, NEW n \in Nat, NEW nr \in 1..FrameCount(n)
  PROVE  /\ Len(PartBytes(c, n, nr)) = PartLen(n, nr)
         /\ \A j \in 1..PartLen(n, nr) :
              PartBytes(c, n, nr)[j] = <<"rsp", c, Off(nr) + j>>
<1> DEFINE S == {<<"rsp", c, i>> : i \in 1..n}
           r == RspPacket(c, n)
<1>1. PICK off \in Nat, len \in Nat :
        off = Off(nr) /\ len = PartLen(n, nr) /\ off + len <= n
  BY PartLength
<1>2. \A i \in (off + 1)..(off + len) : r[i] = <<"rsp", c, i>> /\ r[i] \in S
  BY <1>1 DEF RspPacket
<1>3. PartBytes(c, n, nr) = SubSeq(r, off + 1, off + len)
  BY <1>1 DEF PartBytes
<1> HIDE DEF S, r
<1>4. /\ Len(SubSeq(r, off + 1, off + len)) = len
      /\ \A j \in 1..len : SubSeq(r, off + 1, off + len)[j] = r[off + j]
  BY <1>1, <1>2, SubSeqProperties
<1>5. \A j \in 1..len : r[off + j] = <<"rsp", c, off + j>>
  BY <1>1, <1>2
<1> QED
  BY <1>1, <1>3, <1>4, <1>5

\* The fields of such a frame.
LEMMA PartFields ==
  ASSUME NEW c, NEW n, NEW nr
  PROVE  /\ ReplyPart(c, n, nr).t_seq_nr = nr
         /\ ReplyPart(c, n, nr).t_seq_len = FrameCount(n)
         /\ ReplyPart(c, n, nr).t_size = Len(PartBytes(c, n, nr))
         /\ ReplyPart(c, n, nr).t_pld = PartBytes(c, n, nr)
BY DEF ReplyPart, Frame

\* What the frame says of itself,
LEMMA PartFacts ==
  ASSUME NEW c, NEW n \in Nat, NEW nr \in 1..FrameCount(n)
  PROVE  /\ ReplyPart(c, n, nr).t_seq_nr = nr
         /\ ReplyPart(c, n, nr).t_seq_len = FrameCount(n)
         /\ ReplyPart(c, n, nr).t_size \in Nat
         /\ Len(ReplyPart(c, n, nr).t_pld) = ReplyPart(c, n, nr).t_size
BY PartLength, PartContents, PartFields

\* its size,
LEMMA PartSizes ==
  ASSUME NEW c, NEW n \in Nat, NEW nr \in 1..FrameCount(n)
  PROVE  /\ ReplyPart(c, n, nr).t_size \in Nat
         /\ Off(nr) + ReplyPart(c, n, nr).t_size <= n
         /\ nr < FrameCount(n) => ReplyPart(c, n, nr).t_size = APP_MTU
         /\ nr = FrameCount(n) => Off(nr) + ReplyPart(c, n, nr).t_size = n
<1>1. ReplyPart(c, n, nr).t_size = Len(PartBytes(c, n, nr))
  BY PartFields
<1>2. Len(PartBytes(c, n, nr)) = PartLen(n, nr)
  BY PartContents
<1> QED
  BY <1>1, <1>2, PartLength

\* and its payload.
LEMMA PartPayload ==
  ASSUME NEW c, NEW n \in Nat, NEW nr \in 1..FrameCount(n)
  PROVE  \A j \in 1..ReplyPart(c, n, nr).t_size :
           ReplyPart(c, n, nr).t_pld[j] = <<"rsp", c, Off(nr) + j>>
<1>1. /\ ReplyPart(c, n, nr).t_size = PartLen(n, nr)
      /\ ReplyPart(c, n, nr).t_pld = PartBytes(c, n, nr)
  BY PartContents, PartFields
<1> QED
  BY <1>1, PartContents

\* Every frame but the last is full.
LEMMA FullPart ==
  ASSUME NEW c, NEW n \in Nat, NEW nr \in 1..FrameCount(n), nr < FrameCount(n)
  PROVE  ReplyPart(c, n, nr).t_size = APP_MTU
BY PartSizes

\* The frame the module is to send is that part of its reply.
LEMMA ReplyFrameIsPart ==
  ASSUME mJob.sent = Off(mJob.nr)
  PROVE  ReplyFrame = ReplyPart(mJob.call, rsp[mJob.call].size, mJob.nr)
BY DEF ReplyFrame, ReplyPart, PartBytes, PartLen

-----------------------------------------------------------------------------
(* Queues *)

\* Taking the first element off a queue.
LEMMA TailOf ==
  ASSUME NEW S, NEW s \in Seq(S), s # <<>>
  PROVE  /\ Len(s) \in Nat /\ Len(s) >= 1
         /\ Head(s) = s[1]
         /\ Tail(s) \in Seq(S)
         /\ Len(Tail(s)) = Len(s) - 1
         /\ \A i \in 1..Len(Tail(s)) : Tail(s)[i] = s[i + 1]
BY HeadTailProperties, LenProperties, EmptySeq

\* Putting an element at the end of a queue.
LEMMA AppendTo ==
  ASSUME NEW S, NEW s \in Seq(S), NEW e \in S
  PROVE  /\ Len(s) \in Nat
         /\ Append(s, e) \in Seq(S)
         /\ Len(Append(s, e)) = Len(s) + 1
         /\ \A i \in 1..Len(s) : Append(s, e)[i] = s[i]
         /\ Append(s, e)[Len(s) + 1] = e
BY AppendProperties, LenProperties

\* Putting an element in front of a queue.
LEMMA InFront ==
  ASSUME NEW S, NEW t \in Seq(S), NEW e \in S
  PROVE  /\ Len(<<e>> \o t) = Len(t) + 1
         /\ (<<e>> \o t)[1] = e
         /\ \A i \in 1..Len(t) : (<<e>> \o t)[i + 1] = t[i]
<1> DEFINE s == <<e>>
<1>1. s \in Seq(S) /\ Len(s) = 1 /\ s[1] = e /\ Len(t) \in Nat
  BY LenProperties
<1> HIDE DEF s
<1>2. /\ Len(s \o t) = Len(s) + Len(t)
      /\ \A i \in 1..(Len(s) + Len(t)) :
           (s \o t)[i] = IF i <= Len(s) THEN s[i] ELSE t[i - Len(s)]
  BY <1>1, ConcatProperties
<1>3. Len(s \o t) = Len(t) + 1 /\ (s \o t)[1] = e
  BY <1>1, <1>2
<1>4. ASSUME NEW i \in 1..Len(t) PROVE (s \o t)[i + 1] = t[i]
  <2>1. i + 1 \in 1..(Len(s) + Len(t)) /\ ~(i + 1 <= 1) /\ (i + 1) - 1 = i
    BY <1>1
  <2> QED
    BY <2>1, <1>1, <1>2
<1> QED
  BY <1>3, <1>4 DEF s

\* The empty queue.
LEMMA NoneLeft ==
  ASSUME NEW S, NEW s \in Seq(S)
  PROVE  Len(s) \in Nat /\ (s = <<>> <=> Len(s) = 0)
BY EmptySeq, LenProperties

\* An empty payload.
LEMMA NoBytes == Len(<<>>) = 0
OBVIOUS

-----------------------------------------------------------------------------
(* Steps of the host up to the reply *)

\* The types the proofs below need most.
LEMMA Ranges ==
  ASSUME Inv
  PROVE  /\ call \in 0..MaxCalls /\ MaxCalls \in Nat
         /\ pc # "idle" => call \in Calls
         /\ p \in 0..PKT_SIZE_MAX /\ PKT_SIZE_MAX \in Nat
         /\ seq_nr \in Nat /\ seq_len \in Nat
         /\ com_result \in Results
         /\ mTx \in Seq(Units) /\ Len(mTx) \in Nat
         /\ mRx \in Seq(Writes) /\ Len(mRx) \in Nat
         /\ \A c \in Calls : rsp[c].size \in Nat
BY SizeFacts, NoneLeft
DEF Inv, TypeOK, HostTypes, BusTypes, ModuleTypes, Answers

\* A reply that exists has a size, and so many frames.
LEMMA ReplySize ==
  ASSUME Inv, SafeInv, pc # "idle", Executed
  PROVE  Size \in Nat /\ Size > 0 /\ Count \in Nat /\ Count >= 1
<1>1. Size \in RspSizes
  BY Ranges DEF SafeInv, RspInv, Executed, Size
<1>2. Size \in Nat /\ Size > 0
  BY <1>1, TransportAssumption
<1> QED
  BY <1>2, DivStep DEF Count, FrameCount

\* A call that ends with IO_ERROR or TIMEOUT leaves the module anywhere.
LEMMA FailSafe ==
  ASSUME Inv, SafeInv, pc # "idle", pc' = "idle",
         result' \in {"IO_ERROR", "TIMEOUT"},
         UNCHANGED <<seq_nr, seq_len, p, call, cmdSize, mRx, mCmd, rsp>>
  PROVE  SafeInv'
<1>1. CommandIntact' /\ RspInv'
  BY DEF SafeInv, CommandIntact, RspInv
<1>2. Between' /\ Building' /\ Sending' /\ Acked' /\ Read' /\ InStep' /\ Com'
  BY DEF Between, Failing, Building, Sending, Acked, Read, InStep, Com
<1>3. Written'
  BY DEF SafeInv, Written, FrameSent, Failing, Executed
<1>4. Reply' /\ Done'
  BY DEF Reply, Replying, Done
<1> QED
  BY <1>1, <1>2, <1>3, <1>4 DEF SafeInv

\* A new call begins on a quiet bus.
LEMMA TranceiveSafe ==
  ASSUME Inv, SafeInv, ~Failing, NEW n \in CmdSizes, Tranceive(n)
  PROVE  SafeInv'
<1>0. /\ pc = "idle" /\ pc' = "tx"
      /\ call < MaxCalls /\ call' = call + 1
      /\ cmdSize' = [cmdSize EXCEPT ![call + 1] = n]
      /\ pkt_buffer' = [i \in 1..PKT_SIZE_MAX |->
                          IF i <= n THEN <<"cmd", call + 1, i>> ELSE pkt_buffer[i]]
      /\ pkt_size' = n /\ seq_nr' = 1 /\ seq_len' = FrameCount(n) /\ p' = 0
      /\ UNCHANGED <<mRx, mTx, mCmd, mJob, rsp>>
  BY DEF Tranceive, module
<1>1. /\ n \in 1..PKT_SIZE_MAX
      /\ call \in Nat /\ call + 1 \in Calls
      /\ cmdSize \in [Calls -> 0..PKT_SIZE_MAX]
      /\ FrameCount(n) \in Nat /\ FrameCount(n) >= 1
  <2>1. n \in 1..PKT_SIZE_MAX /\ n \in Nat
    BY SizeFacts
  <2>2. call \in Nat /\ call + 1 \in Calls
    BY <1>0, Ranges DEF Calls
  <2>3. cmdSize \in [Calls -> 0..PKT_SIZE_MAX]
    BY DEF Inv, TypeOK, ModuleTypes
  <2>4. n \div APP_MTU \in Nat
    BY <2>1, DivStep
  <2> QED
    BY <2>1, <2>2, <2>3, <2>4 DEF FrameCount
<1>2. Quiet /\ \A i \in 1..Len(mRx) : mRx[i].kind # "frame"
  BY <1>0 DEF SafeInv, Between, Written, FrameSent
<1>3. rsp[call + 1] = NoRsp
  BY <1>1 DEF SafeInv, RspInv
<1>4. CommandIntact' /\ RspInv'
  BY <1>0, <1>1, <1>3 DEF SafeInv, CommandIntact, RspInv, Calls
<1>5. Building'
  <2>1. cmdSize'[call + 1] = n
    BY <1>0, <1>1
  <2>2. \A i \in 1..n : pkt_buffer'[i] = <<"cmd", call + 1, i>>
    BY <1>0, <1>1, SizeFacts
  <2> QED
    BY <2>1, <2>2, <1>0, <1>1 DEF Building
<1>6. Sending'
  BY <1>0, <1>2, <1>3 DEF Sending, Quiet, Executed
<1>7. Written' /\ Acked'
  BY <1>0, <1>2 DEF Written, Acked, Quiet
<1>8. Between' /\ Read' /\ Reply' /\ InStep' /\ Com' /\ Done'
  BY <1>0 DEF Between, Read, Reply, Replying, InStep, Com, Done
<1> QED
  BY <1>4, <1>5, <1>6, <1>7, <1>8 DEF SafeInv

\* Writing a frame puts the next bytes of the command on the bus.
LEMMA TxLinkWriteSafe ==
  ASSUME Inv, Inv', SafeInv, TxLinkWrite
  PROVE  SafeInv'
<1> DEFINE t_size == IF data_left < APP_MTU THEN data_left ELSE APP_MTU
           pld == SubSeq(pkt_buffer, p + 1, p + t_size)
           frm == Frame(seq_nr, seq_len, pld)
<1>0. /\ pc = "tx" /\ pc' = "ack"
      /\ txrx' = [lnk_size |-> LinkSize(frm), frm |-> frm,
                  crc_size |-> LinkSize(frm)]
      /\ p' = p + t_size
      /\ mRx' = Append(mRx, FrameWrite(call, frm))
      /\ UNCHANGED <<pkt_buffer, pkt_size, seq_nr, seq_len, call, cmdSize, mTx,
                     mCmd, mJob, rsp>>
  BY DEF TxLinkWrite, Advance
<1>1. /\ t_size \in Nat
      /\ p \in Nat /\ p + t_size <= pkt_size /\ pkt_size \in 0..PKT_SIZE_MAX
      /\ pkt_size = cmdSize[call]
      /\ seq_nr \in Nat /\ seq_len \in Nat /\ seq_nr >= 1 /\ seq_nr <= seq_len
      /\ \A i \in 1..pkt_size : pkt_buffer[i] = <<"cmd", call, i>>
      /\ call \in Calls
  BY <1>0, MtuFacts, SizeFacts
  DEF Inv, TypeOK, HostTypes, SentWhole, SafeInv, Building
<1> HIDE DEF t_size
<1>2. /\ pld \in Seq(Bytes) /\ Len(pld) = t_size
      /\ \A j \in 1..t_size : pld[j] = <<"cmd", call, p + j>>
  <2>1. \A i \in (p + 1)..(p + t_size) :
          pkt_buffer[i] \in Bytes /\ pkt_buffer[i] = <<"cmd", call, i>>
    BY <1>1 DEF Bytes
  <2> QED
    BY <2>1, <1>1, SubSeqProperties
<1> HIDE DEF pld
<1>3. /\ frm.t_size = t_size /\ frm.t_pld = pld
      /\ frm.t_seq_nr = seq_nr /\ frm.t_seq_len = seq_len
      /\ frm \in Frames
  BY <1>1, <1>2, FrameType DEF Frame
<1> HIDE DEF frm
<1>4. PICK w \in Writes :
             /\ w = FrameWrite(call, frm)
             /\ w.kind = "frame" /\ w.call = call /\ w.frm = frm
  <2>1. FrameWrite(call, frm) \in Writes
    BY <1>1, <1>3 DEF FrameWrite, Writes
  <2> QED
    BY <2>1 DEF FrameWrite
<1>5. /\ Quiet /\ ~Executed
      /\ seq_nr = 1 => p = 0
      /\ seq_nr > 1 /\ mCmd.nr + 1 = seq_nr => mCmd.bytes = CmdPacket(call, p)
      /\ \A i \in 1..Len(mRx) : mRx[i].kind # "frame"
  BY <1>0 DEF SafeInv, Sending, Written, FrameSent, Failing
<1>6. /\ Len(mRx) \in Nat /\ Len(mRx') = Len(mRx) + 1
      /\ \A i \in 1..Len(mRx) : mRx'[i] = mRx[i]
      /\ mRx'[Len(mRx) + 1] = w
  BY <1>0, <1>4, AppendTo, Ranges
<1>7. CommandIntact' /\ RspInv'
  BY <1>0 DEF SafeInv, CommandIntact, RspInv
<1>8. Building'
  BY <1>0, <1>1 DEF Building
<1>9. Quiet' /\ ~Executed'
  BY <1>0, <1>5 DEF Quiet, Executed
<1>10. FrameSent(w)'
  <2>1. p' - t_size = p /\ t_size <= p'
    BY <1>0, <1>1
  <2>2. seq_nr = seq_len => p' = cmdSize[call]
    <3>1. seq_nr = seq_len => data_left' = 0
      BY <1>0 DEF Inv, FramesLeft
    <3>2. p' + data_left' = pkt_size
      BY <1>0 DEF Inv, SentWhole
    <3> QED
      BY <3>1, <3>2, <1>0, <1>1
  <2>3. \A j \in 1..t_size : pld[j] = <<"cmd", call, (p' - t_size) + j>>
    BY <2>1, <1>2
  <2>4. /\ w.call = call
        /\ w.frm.t_seq_nr = seq_nr /\ w.frm.t_seq_len = seq_len
        /\ w.frm.t_size = t_size /\ w.frm.t_pld = pld
    BY <1>3, <1>4
  <2>5. seq_nr = 1 => p' = t_size
    BY <1>0, <1>1, <1>5
  <2> HIDE DEF frm, pld, t_size
  <2> QED
    BY <2>1, <2>2, <2>3, <2>4, <2>5, <1>0, <1>1, <1>2, <1>5, <1>9 DEF FrameSent
<1>11. Written'
  <2> SUFFICES ASSUME NEW i \in 1..Len(mRx'), mRx'[i].kind = "frame"
               PROVE  i = Len(mRx') /\ FrameSent(mRx[i])'
    BY DEF Written
  <2>1. i \notin 1..Len(mRx)
    BY <1>5, <1>6
  <2>2. i = Len(mRx')
    BY <2>1, <1>6
  <2>3. mRx'[i] = w
    BY <2>2, <1>6
  <2> QED
    BY <2>2, <2>3, <1>10
<1>12. Acked' /\ Reply'
  BY <1>0, <1>5 DEF Acked, Reply, Replying, Quiet
<1>13. Read'
  <2>1. txrx'.frm = frm /\ txrx'.crc_size = LinkSize(frm)
    BY <1>0
  <2> QED
    BY <2>1, <1>1, <1>3 DEF Read
<1>14. Between' /\ Sending' /\ InStep' /\ Com' /\ Done'
  BY <1>0 DEF Between, Sending, InStep, Com, Done
<1> QED
  BY <1>7, <1>8, <1>11, <1>12, <1>13, <1>14 DEF SafeInv

\* Reading the first unit leaves the others in their order.
LEMMA StreamShift ==
  ASSUME Inv, mTx # <<>>, mTx' = Tail(mTx), UNCHANGED <<call, rsp, mJob>>,
         Stream, Alternate,
         \A i \in 2..Len(mTx) :
           mTx[i].kind = "body" => Got' <= Off(mTx[i].frm.t_seq_nr)
  PROVE  Stream' /\ Alternate'
<1>1. /\ Len(mTx) \in Nat /\ Len(mTx) >= 1
      /\ Len(mTx') = Len(mTx) - 1
      /\ \A i \in 1..Len(mTx') : mTx'[i] = mTx[i + 1] /\ i + 1 \in 2..Len(mTx)
  BY Ranges, TailOf
<1>2. ASSUME NEW i \in 1..Len(mTx'), mTx'[i].kind = "body"
      PROVE  BodyOf(i)'
  <2> DEFINE nr == mTx[i + 1].frm.t_seq_nr
  <2>1. mTx'[i] = mTx[i + 1] /\ i + 1 \in 2..Len(mTx)
    BY <1>1
  <2>2. BodyOf(i + 1) /\ Got' <= Off(nr)
    BY <1>1, <1>2, <2>1 DEF Stream
  <2>3. i < Len(mTx') => i + 1 < Len(mTx)
    BY <1>1
  <2>4. Size' = Size /\ Count' = Count
    BY DEF Size, Count
  <2> QED
    BY <2>1, <2>2, <2>3, <2>4 DEF BodyOf
<1>3. ASSUME NEW i \in 1..Len(mTx'), NEW j \in 1..Len(mTx'), i < j,
             mTx'[i].kind = "body", mTx'[j].kind = "body"
      PROVE  mTx'[i].frm.t_seq_nr < mTx'[j].frm.t_seq_nr
  <2>1. i + 1 \in 1..Len(mTx) /\ j + 1 \in 1..Len(mTx) /\ i + 1 < j + 1
    BY <1>1, <1>3
  <2> QED
    BY <2>1, <1>1, <1>3 DEF Stream
<1>4. Stream'
  BY <1>2, <1>3 DEF Stream
<1>5. Alternate'
  <2>1. \A i \in 2..Len(mTx') : mTx'[i].kind \in {"ack", "hdr", "body"}
    BY <1>1 DEF Alternate
  <2>2. ASSUME NEW i \in 1..(Len(mTx') - 1)
        PROVE  /\ mTx'[i].kind = "hdr" => mTx'[i + 1].kind = "body"
               /\ mTx'[i].kind \in {"body", "ack"} => mTx'[i + 1].kind = "hdr"
    <3>1. /\ i + 1 \in 1..(Len(mTx) - 1)
          /\ mTx'[i] = mTx[i + 1] /\ mTx'[i + 1] = mTx[(i + 1) + 1]
      BY <1>1
    <3> QED
      BY <3>1 DEF Alternate
  <2>3. Len(mTx') > 0 => mTx'[Len(mTx')] = mTx[Len(mTx)] /\ Len(mTx) > 0
    BY <1>1
  <2> QED
    BY <2>1, <2>2, <2>3 DEF Alternate
<1> QED
  BY <1>4, <1>5

\* The answer to a frame.  The last ACK is the beginning of the reply.
LEMMA TxLinkAckSafe ==
  ASSUME Inv, SafeInv, TxLinkAck
  PROVE  SafeInv'
<1>0. /\ pc = "ack" /\ mTx # <<>> /\ mTx' = Tail(mTx)
      /\ UNCHANGED <<txrx, call, cmdSize, mRx, mCmd, mJob, rsp>>
  BY DEF TxLinkAck
<1>1. /\ Len(mTx) \in Nat /\ Len(mTx) >= 1 /\ Head(mTx) = mTx[1]
      /\ Len(mTx') = Len(mTx) - 1
      /\ \A i \in 1..Len(mTx') : mTx'[i] = mTx[i + 1] /\ i + 1 \in 2..Len(mTx)
  BY <1>0, Ranges, TailOf
<1>2. CASE SendFails("IO_ERROR")
  BY <1>0, <1>2, FailSafe DEF SendFails
<1>3. CommandIntact' /\ RspInv'
  BY <1>0 DEF SafeInv, CommandIntact, RspInv
<1>4. ASSUME IsAck(Head(mTx))
      PROVE  /\ mTx[1].kind = "ack"
             /\ Len(mRx) = 0
             /\ mCmd.bytes = CmdPacket(call, p)
             /\ \A j \in 2..Len(mTx) : mTx[j].kind # "ack"
             /\ seq_nr < seq_len => /\ Len(mTx) = 1
                                    /\ mJob.phase = "none"
                                    /\ ~Executed
  <2>1. mTx[1].kind = "ack" /\ 1 \in 1..Len(mTx)
    BY <1>1, <1>4 DEF IsAck, AckUnit
  <2>2. /\ Len(mRx) = 0
        /\ mCmd.bytes = CmdPacket(call, p)
        /\ \A j \in (1 + 1)..Len(mTx) : mTx[j].kind # "ack"
        /\ seq_nr < seq_len =>
             1 = Len(mTx) /\ mJob.phase = "none" /\ ~Executed
    BY <2>1, <1>0 DEF SafeInv, Acked
  <2> QED
    BY <2>1, <2>2
<1>5. CASE /\ IsAck(Head(mTx)) /\ seq_nr < seq_len
           /\ seq_nr' = seq_nr + 1 /\ pc' = "tx"
           /\ UNCHANGED <<pkt_buffer, pkt_size, seq_len, data_left, p,
                          com_result, result, bep_result>>
  <2>1. Quiet' /\ ~Executed'
    <3>1. Len(mTx') = 0 /\ mJob'.phase = "none"
      <4>1. Len(mTx) = 1 /\ mJob.phase = "none"
        BY <1>4, <1>5
      <4>2. mJob' = mJob
        BY <1>0
      <4> QED
        BY <1>1, <4>1, <4>2
    <3>2. ~Executed'
      BY <1>0, <1>4, <1>5 DEF Executed
    <3> QED
      BY <3>1, <3>2 DEF Quiet
  <2>2. seq_nr \in Nat /\ seq_len \in Nat /\ seq_nr >= 1
    BY <1>0, Ranges DEF SafeInv, Building
  <2>3. Building'
    BY <1>0, <1>5, <2>2 DEF SafeInv, Building
  <2>4. Sending'
    BY <1>0, <1>4, <1>5, <2>1, <2>2 DEF Sending
  <2>5. Written' /\ Acked'
    BY <1>0, <1>1, <1>4, <1>5 DEF Written, Acked
  <2>6. Between' /\ Read' /\ Reply' /\ InStep' /\ Com' /\ Done'
    BY <1>5 DEF Between, Read, Reply, Replying, InStep, Com, Done
  <2> QED
    BY <1>3, <2>3, <2>4, <2>5, <2>6 DEF SafeInv
<1>6. CASE /\ IsAck(Head(mTx)) /\ seq_nr = seq_len
           /\ seq_nr' = 0 /\ seq_len' = 1 /\ p' = 0 /\ com_result' = "OK"
           /\ pc' = "hdr"
           /\ UNCHANGED <<pkt_buffer, pkt_size, data_left, result, bep_result>>
  <2>1. Replying
    BY <1>0, <1>1, <1>4, <1>6 DEF Replying
  <2>2. Executed /\ Job /\ Stream /\ Alternate /\ Exact
    BY <2>1 DEF SafeInv, Reply
  <2>3. /\ Got = 0 /\ Got' = 0 /\ Had = 0 /\ Had' = 0
        /\ Size' = Size /\ Count' = Count /\ Executed'
    BY <1>0, <1>6, <2>2 DEF Got, Had, Size, Count, Executed
  <2>4. Size \in Nat /\ Size > 0 /\ Count \in Nat /\ Count >= 1
    BY <1>0, <2>2, ReplySize
  <2>5. Job'
    BY <1>0, <2>2, <2>3 DEF Job
  <2>6. Stream' /\ Alternate'
    <3>1. \A i \in 2..Len(mTx) :
            mTx[i].kind = "body" => Got' <= Off(mTx[i].frm.t_seq_nr)
      BY <2>2, <2>3, <1>1 DEF Stream, BodyOf
    <3> QED
      BY <3>1, <1>0, <2>2, StreamShift
  <2>7. Exact'
    <3>1. p' = Off(seq_nr') + APP_MTU /\ seq_nr' < Count'
      BY <1>6, <2>3, <2>4, OffZero
    <3>2. \A i \in 1..p' : pkt_buffer'[i] = <<"rsp", call', i>>
      BY <1>6
    <3>3. \A i \in 1..Len(mTx') :
            mTx'[i].kind = "body" => mTx'[i].frm.t_seq_nr = Had' + 1
      BY <1>0, <1>1, <2>2, <2>3 DEF Exact
    <3> QED
      BY <3>1, <3>2, <3>3, <1>0, <2>2, <2>3 DEF Exact
  <2>8. Reply'
    BY <2>2, <2>3, <2>5, <2>6, <2>7 DEF Reply
  <2>9. InStep'
    <3>1. ~NextIsBody'
      <4>1. CASE Len(mTx) = 1
        <5>1. mTx[Len(mTx)].kind = "ack" /\ Len(mTx') = 0 /\ Len(mTx) > 0
          BY <4>1, <1>1, <1>4, <1>6
        <5>2. mJob.phase # "body"
          BY <5>1, <2>2 DEF Alternate
        <5> QED
          BY <5>1, <5>2, <1>0 DEF NextIsBody
      <4>2. CASE Len(mTx) > 1
        <5>1. mTx[2].kind = "hdr" /\ mTx'[1] = mTx[2] /\ Len(mTx') > 0
          BY <4>2, <1>1, <1>4, <1>6, <2>2 DEF Alternate
        <5> QED
          BY <5>1 DEF NextIsBody
      <4> QED
        BY <4>1, <4>2, <1>1
    <3> QED
      BY <3>1, <1>6 DEF InStep
  <2>10. Read'
    BY <1>0, <1>6 DEF SafeInv, Read
  <2>11. Written' /\ Acked'
    BY <1>0, <1>1, <1>4, <1>6 DEF Written, Acked
  <2>12. Between' /\ Building' /\ Sending' /\ Com' /\ Done'
    BY <1>6 DEF Between, Building, Sending, Com, Done
  <2> QED
    BY <1>3, <2>8, <2>9, <2>10, <2>11, <2>12 DEF SafeInv
<1> QED
  BY <1>2, <1>5, <1>6 DEF TxLinkAck

\* The header of a frame: what is on the bus behind it is its body.
LEMMA RxLinkHeaderSafe ==
  ASSUME Inv, SafeInv, RxLinkHeader
  PROVE  SafeInv'
<1> DEFINE size == HeaderSize(Head(mTx))
<1>0. /\ pc = "hdr" /\ mTx # <<>> /\ mTx' = Tail(mTx)
      /\ txrx' = [txrx EXCEPT !.lnk_size = size]
      /\ UNCHANGED <<call, cmdSize, mRx, mCmd, mJob, rsp>>
  BY DEF RxLinkHeader
<1>1. /\ Len(mTx) \in Nat /\ Len(mTx) >= 1 /\ Head(mTx) = mTx[1]
      /\ Len(mTx') = Len(mTx) - 1
      /\ \A i \in 1..Len(mTx') : mTx'[i] = mTx[i + 1] /\ i + 1 \in 2..Len(mTx)
  BY <1>0, Ranges, TailOf
<1>2. CASE ReceiveFails("IO_ERROR")
  BY <1>0, <1>2, FailSafe DEF ReceiveFails
<1>3. CASE /\ ~TooLong(size) /\ pc' = "body"
           /\ UNCHANGED <<pkt_buffer, pkt_size, seq_nr, seq_len, data_left, p,
                          com_result, result, bep_result>>
  <2>1. Executed /\ Job /\ Stream /\ Alternate /\ Exact
    BY <1>0 DEF SafeInv, Reply, Replying
  <2>2. /\ Got' = Got /\ Had' = Had /\ Size' = Size /\ Count' = Count
        /\ Executed'
    BY <1>0, <1>3, <2>1 DEF Got, Had, Size, Count, Executed
  <2>3. CommandIntact' /\ RspInv'
    BY <1>0 DEF SafeInv, CommandIntact, RspInv
  <2>4. Written' /\ Acked'
    BY <1>0, <1>1 DEF SafeInv, Written, FrameSent, Acked, Failing
  <2>5. /\ txrx'.frm = txrx.frm /\ txrx'.crc_size = txrx.crc_size
        /\ txrx'.lnk_size = size /\ size + 8 <= MTU
    <3>1. txrx \in [lnk_size : Nat, frm : Frames, crc_size : Nat]
      BY DEF Inv, TypeOK, BufferTypes
    <3>2. size \in Nat
      <4>1. Head(mTx) \in Units
        BY <1>0, HeadUnit DEF Inv, TypeOK, BusTypes
      <4> QED
        BY <4>1, MtuFacts DEF HeaderSize, Units, Frames
    <3>3. size + 8 <= MTU
      BY <3>2, <1>3, MtuFacts DEF TooLong
    <3> HIDE DEF size
    <3> QED
      BY <3>1, <3>3, <1>0
  <2>6. Read'
    BY <1>0, <2>5 DEF SafeInv, Read
  <2>7. Stream' /\ Alternate'
    <3>1. \A i \in 2..Len(mTx) :
            mTx[i].kind = "body" => Got' <= Off(mTx[i].frm.t_seq_nr)
      BY <2>1, <2>2, <1>1 DEF Stream, BodyOf
    <3> QED
      BY <3>1, <1>0, <2>1, StreamShift
  <2>8. Job'
    BY <1>0, <2>1, <2>2 DEF Job
  <2>9. Exact'
    <3>1. com_result = "OK" => \A i \in 1..Len(mTx') :
            mTx'[i].kind = "body" => mTx'[i].frm.t_seq_nr = Had' + 1
      BY <1>0, <1>1, <2>1, <2>2 DEF Exact
    <3> QED
      BY <3>1, <1>0, <1>3, <2>1, <2>2 DEF Exact
  <2>10. Reply'
    BY <2>1, <2>2, <2>7, <2>8, <2>9 DEF Reply
  <2>11. InStep'
    <3>1. CASE mTx[1].kind = "hdr"
      BY <3>1, <1>0, <1>1, <1>3, <2>1, <2>5 DEF InStep, Alternate
    <3>2. CASE mTx[1].kind = "body"
      BY <3>2, <1>0, <1>1, <1>3, <2>5 DEF SafeInv, InStep, NextIsBody
    <3>3. CASE mTx[1].kind = "zero"
      BY <3>3, <1>1, <1>3, <2>5 DEF InStep, HeaderSize
    <3>4. CASE mTx[1].kind \notin {"hdr", "body", "zero"}
      <4>1. size = MTU
        BY <3>4, <1>1 DEF HeaderSize
      <4> QED
        BY <4>1, <2>5, MtuFacts
    <3> QED
      BY <3>1, <3>2, <3>3, <3>4
  <2>12. Com'
    BY <1>0, <1>3, <2>2 DEF SafeInv, Com
  <2>13. Between' /\ Building' /\ Sending' /\ Done'
    BY <1>3 DEF Between, Building, Sending, Done
  <2> QED
    BY <2>3, <2>4, <2>6, <2>10, <2>11, <2>12, <2>13 DEF SafeInv
<1> QED
  BY <1>2, <1>3 DEF RxLinkHeader

\* A reset leaves nothing on the bus.
LEMMA HwResetSafe ==
  ASSUME Inv, SafeInv, HwReset
  PROVE  SafeInv'
<1>0. /\ pc = "idle" /\ pc' = "idle" /\ result' = "NONE"
      /\ mRx' = <<>> /\ mTx' = <<>> /\ mJob' = NoJob
      /\ UNCHANGED <<call, cmdSize, rsp>>
  BY DEF HwReset
<1>1. Len(mRx') = 0 /\ Len(mTx') = 0 /\ mJob'.phase = "none"
  BY <1>0 DEF NoJob
<1>2. CommandIntact' /\ RspInv'
  BY <1>0 DEF SafeInv, CommandIntact, RspInv
<1>3. Between' /\ Written' /\ Acked'
  BY <1>1 DEF Between, Quiet, Written, Acked
<1>4. Building' /\ Sending' /\ Read' /\ Reply' /\ InStep' /\ Com' /\ Done'
  BY <1>0 DEF Building, Sending, Read, Reply, Replying, InStep, Com, Done
<1> QED
  BY <1>2, <1>3, <1>4 DEF SafeInv

-----------------------------------------------------------------------------
(* The body of a frame *)

\* The ACK of a frame is no frame, and nothing of the command is in flight.
LEMMA AckWritten ==
  ASSUME Inv, SafeInv, pc = "body", mRx' = Append(mRx, AckWrite)
  PROVE  Written' /\ Len(mRx) \in Nat /\ Len(mRx') = Len(mRx) + 1
<1>1. AckWrite \in Writes /\ AckWrite.kind = "ack"
  BY DEF AckWrite, Writes
<1>2. /\ Len(mRx) \in Nat /\ Len(mRx') = Len(mRx) + 1
      /\ \A i \in 1..Len(mRx) : mRx'[i] = mRx[i]
      /\ mRx'[Len(mRx) + 1] = AckWrite
  BY <1>1, AppendTo, Ranges
<1>3. \A i \in 1..Len(mRx) : mRx[i].kind # "frame"
  BY DEF SafeInv, Written, FrameSent, Failing
<1>4. \A i \in 1..Len(mRx') : mRx'[i].kind # "frame"
  <2> SUFFICES ASSUME NEW i \in 1..Len(mRx') PROVE mRx'[i].kind # "frame"
    OBVIOUS
  <2>1. CASE i \in 1..Len(mRx)
    BY <2>1, <1>2, <1>3
  <2>2. CASE i = Len(mRx) + 1
    BY <2>2, <1>1, <1>2
  <2> QED
    BY <2>1, <2>2, <1>2
<1> QED
  BY <1>2, <1>4 DEF Written

\* Four zero bytes that pass for a body: the frame counts as not consistent, and
\* bmlite_receive reads on with IO_ERROR noted.
LEMMA EmptyBodySafe ==
  ASSUME Inv, SafeInv, pc = "body", NEW b, Reassemble(b), txrx' = b,
         mRx' = Append(mRx, AckWrite),
         mTx' = mTx \/ (mTx # <<>> /\ mTx' = Tail(mTx)),
         UNCHANGED <<call, cmdSize, mCmd, mJob, rsp>>,
         b.lnk_size = 0, b.crc_size = 0, b.frm.t_size = 0, b.frm.t_seq_nr = 0,
         b.frm.t_seq_len \in Nat, b.frm.t_seq_len >= 1
  PROVE  SafeInv'
<1>1. /\ pc' = "hdr" /\ com_result' = "IO_ERROR"
      /\ p' = p /\ pkt_buffer' = pkt_buffer
  BY DEF Reassemble, MoreFrames
<1>2. Executed /\ Job /\ Stream /\ Alternate
  BY DEF SafeInv, Reply, Replying
<1>3. Got = p /\ Got' = p /\ Size' = Size /\ Count' = Count /\ Executed'
  BY <1>1, <1>2 DEF Got, Size, Count, Executed
<1>4. CommandIntact' /\ RspInv'
  BY DEF SafeInv, CommandIntact, RspInv
<1>5. Written'
  BY AckWritten
<1>6. Job'
  BY <1>1, <1>2, <1>3 DEF Job
<1>7. Stream' /\ Alternate' /\ Acked'
  <2>1. CASE mTx' = mTx
    BY <2>1, <1>2, <1>3 DEF Stream, BodyOf, Alternate, SafeInv, Acked, Failing
  <2>2. CASE mTx # <<>> /\ mTx' = Tail(mTx)
    <3>1. \A i \in 2..Len(mTx) :
            mTx[i].kind = "body" => Got' <= Off(mTx[i].frm.t_seq_nr)
      BY <1>2, <1>3 DEF Stream, BodyOf
    <3>2. Stream' /\ Alternate'
      BY <3>1, <1>2, <2>2, StreamShift
    <3>3. \A i \in 1..Len(mTx') : mTx'[i].kind # "ack"
      <4>1. \A i \in 1..Len(mTx) : mTx[i].kind # "ack"
        BY DEF SafeInv, Acked, Failing
      <4>2. Len(mTx) \in Nat /\ Len(mTx') = Len(mTx) - 1
            /\ \A i \in 1..Len(mTx') : mTx'[i] = mTx[i + 1]
        BY <2>2, Ranges, TailOf
      <4> QED
        BY <4>1, <4>2
    <3> QED
      BY <3>2, <3>3 DEF Acked
  <2> QED
    BY <2>1, <2>2
<1>8. Reply'
  BY <1>1, <1>2, <1>3, <1>6, <1>7 DEF Reply, Exact
<1>9. Read' /\ InStep'
  BY <1>1 DEF Read, InStep
<1>10. Between' /\ Building' /\ Sending' /\ Com' /\ Done'
  BY <1>1 DEF Between, Building, Sending, Com, Done
<1> QED
  BY <1>4, <1>5, <1>7, <1>8, <1>9, <1>10 DEF SafeInv

\* What storing the next bytes of the reply does to pkt_buffer.
LEMMA StoredBytes ==
  ASSUME Inv, NEW t \in Nat, NEW pld, Len(pld) = t, p + t < PKT_SIZE_MAX,
         \A i \in 1..p : pkt_buffer[i] = <<"rsp", call, i>>,
         \A j \in 1..t : pld[j] = <<"rsp", call, p + j>>
  PROVE  \A i \in 1..(p + t) : Stored(pld)[i] = <<"rsp", call, i>>
<1>1. p \in Nat /\ PKT_SIZE_MAX \in Nat
  BY Ranges
<1> SUFFICES ASSUME NEW i \in 1..(p + t)
             PROVE  Stored(pld)[i] = <<"rsp", call, i>>
  OBVIOUS
<1>2. /\ i \in 1..PKT_SIZE_MAX
      /\ Stored(pld)[i] = IF i \in (p + 1)..(p + t) THEN pld[i - p]
                          ELSE pkt_buffer[i]
  BY <1>1 DEF Stored
<1>3. CASE i <= p
  BY <1>1, <1>2, <1>3
<1>4. CASE i > p
  <2>1. i - p \in 1..t /\ p + (i - p) = i
    BY <1>1, <1>4
  <2>2. pld[i - p] = <<"rsp", call, i>>
    BY <2>1
  <2> QED
    BY <2>2, <1>1, <1>2, <1>4
<1> QED
  BY <1>1, <1>3, <1>4

\* The facts about a body read with a right CRC that both its outcomes need: it
\* is a frame of the reply, and if all went well the next one.
LEMMA FrameRead ==
  ASSUME Inv, SafeInv, pc = "body", mTx # <<>>, Head(mTx).kind = "body",
         NEW b, b = BodyRead(Head(mTx)), CrcMatches(b), Reassemble(b)
  PROVE  LET nr == b.frm.t_seq_nr
         IN  /\ Executed /\ Size \in Nat /\ Size > 0
             /\ Count = FrameCount(Size) /\ Count \in Nat
             /\ nr \in 1..Count
             /\ b.frm = mTx[1].frm
             /\ b.frm = ReplyPart(call, Size, nr)
             /\ b.frm.t_seq_len = Count
             /\ b.crc_size = LinkSize(b.frm)
             /\ b.frm.t_size \in Nat
             /\ Off(nr) \in Nat /\ p <= Off(nr) /\ Off(nr) + b.frm.t_size <= Size
             /\ nr < Count => b.frm.t_size = APP_MTU
             /\ nr = Count => Off(nr) + b.frm.t_size = Size
             /\ mJob.phase # "none" => nr <= mJob.nr
             /\ mJob.phase \in {"hdr", "body"} => nr < mJob.nr
             /\ Len(mTx) > 1 => nr < Count
             /\ com_result = "OK" =>
                  /\ p = Off(nr)
                  /\ nr = seq_nr + 1
                  /\ \A i \in 1..p : pkt_buffer[i] = <<"rsp", call, i>>
                  /\ p + b.frm.t_size < PKT_SIZE_MAX =>
                       \A i \in 1..(p + b.frm.t_size) :
                         pkt_buffer'[i] = <<"rsp", call, i>>
             /\ seq_nr' = nr /\ seq_len' = Count
             /\ \/ /\ p + b.frm.t_size < PKT_SIZE_MAX
                   /\ p' = p + b.frm.t_size
                   /\ com_result' = com_result
                \/ /\ p + b.frm.t_size >= PKT_SIZE_MAX
                   /\ p' = p /\ com_result' = "NO_MEMORY"
                   /\ pkt_buffer' = pkt_buffer
             /\ \/ nr < Count /\ pc' = "hdr"
                \/ /\ nr = Count /\ pc' = "idle"
                   /\ pkt_size' = p' /\ result' = com_result'
                   /\ bep_result' = BepResultOf(pkt_buffer')
<1> DEFINE nr == b.frm.t_seq_nr
           frm == b.frm
<1>1. /\ Len(mTx) \in Nat /\ Len(mTx) >= 1 /\ Head(mTx) = mTx[1]
      /\ mTx[1].kind = "body" /\ 1 \in 1..Len(mTx)
  BY Ranges, TailOf
<1>2. Executed /\ Job /\ Stream /\ Alternate /\ Exact
  BY DEF SafeInv, Reply, Replying
<1>3. /\ Size \in Nat /\ Size > 0 /\ Count \in Nat /\ Count >= 1
      /\ Count = FrameCount(Size)
  BY <1>2, ReplySize DEF Count
<1>4. /\ b.frm = mTx[1].frm
      /\ b.crc_size = LinkSize(b.frm)
      /\ b.lnk_size = b.crc_size
  <2>1. txrx \in [lnk_size : Nat, frm : Frames, crc_size : Nat]
    BY DEF Inv, TypeOK, BufferTypes
  <2>2. b = [txrx EXCEPT !.frm = mTx[1].frm, !.crc_size = LinkSize(mTx[1].frm)]
    BY <1>1 DEF BodyRead
  <2> QED
    BY <2>1, <2>2 DEF CrcMatches
<1>5. BodyOf(1)
  BY <1>1, <1>2 DEF Stream
<1>6. /\ nr \in 1..Count
      /\ frm = ReplyPart(call, Size, nr)
      /\ p <= Off(nr)
      /\ mJob.phase # "none" => nr <= mJob.nr
      /\ mJob.phase \in {"hdr", "body"} => nr < mJob.nr
      /\ Len(mTx) > 1 => nr < Count
  BY <1>1, <1>4, <1>5 DEF BodyOf, Got
<1>7. /\ frm.t_seq_len = Count
      /\ frm.t_size \in Nat
      /\ Off(nr) + frm.t_size <= Size
      /\ nr < Count => frm.t_size = APP_MTU
      /\ nr = Count => Off(nr) + frm.t_size = Size
  <2>1. nr \in 1..FrameCount(Size) /\ frm = ReplyPart(call, Size, nr)
    BY <1>3, <1>6
  <2> HIDE DEF nr, frm
  <2>2. /\ frm.t_seq_len = FrameCount(Size)
        /\ frm.t_size \in Nat
        /\ Off(nr) + frm.t_size <= Size
        /\ nr < FrameCount(Size) => frm.t_size = APP_MTU
        /\ nr = FrameCount(Size) => Off(nr) + frm.t_size = Size
    BY <1>3, <2>1, PartFacts, PartSizes
  <2> QED
    BY <1>3, <2>2
<1>8. Off(nr) \in Nat
  BY <1>3, <1>6, FrameEnds
<1>9. frm.t_size = b.lnk_size - 6
  BY <1>4, <1>7 DEF LinkSize
<1>10. p \in Nat /\ PKT_SIZE_MAX \in Nat /\ seq_nr \in Nat
  BY Ranges
<1>11. com_result = "OK" => /\ p = Off(nr)
                            /\ nr = seq_nr + 1
                            /\ \A i \in 1..p : pkt_buffer[i] = <<"rsp", call, i>>
  <2> SUFFICES ASSUME com_result = "OK"
               PROVE  /\ p = Off(nr)
                      /\ nr = seq_nr + 1
                      /\ \A i \in 1..p : pkt_buffer[i] = <<"rsp", call, i>>
    OBVIOUS
  <2>1. /\ nr = seq_nr + 1 /\ p = Off(seq_nr) + APP_MTU
        /\ \A i \in 1..p : pkt_buffer[i] = <<"rsp", call, i>>
    BY <1>1, <1>2, <1>4 DEF Exact, Had
  <2> QED
    BY <2>1, <1>10, OffStep
<1>12. /\ seq_nr' = nr /\ seq_len' = frm.t_seq_len
       /\ \/ /\ p + frm.t_size < PKT_SIZE_MAX
             /\ p' = p + frm.t_size
             /\ com_result' = com_result
             /\ pkt_buffer' = Stored(frm.t_pld)
          \/ /\ ~(p + frm.t_size < PKT_SIZE_MAX)
             /\ p' = p /\ com_result' = "NO_MEMORY"
             /\ pkt_buffer' = pkt_buffer
       /\ \/ /\ nr < frm.t_seq_len /\ pc' = "hdr"
          \/ /\ ~(nr < frm.t_seq_len) /\ pc' = "idle"
             /\ pkt_size' = p' /\ result' = com_result'
             /\ bep_result' = BepResultOf(pkt_buffer')
  BY <1>9 DEF Reassemble, Fits, Advance, MoreFrames
<1>13. com_result = "OK" /\ p + frm.t_size < PKT_SIZE_MAX =>
         \A i \in 1..(p + frm.t_size) : pkt_buffer'[i] = <<"rsp", call, i>>
  <2> SUFFICES ASSUME com_result = "OK", p + frm.t_size < PKT_SIZE_MAX
               PROVE  \A i \in 1..(p + frm.t_size) :
                        pkt_buffer'[i] = <<"rsp", call, i>>
    OBVIOUS
  <2>1. nr \in 1..FrameCount(Size) /\ frm = ReplyPart(call, Size, nr)
    BY <1>3, <1>6
  <2>2. p = Off(nr) /\ \A i \in 1..p : pkt_buffer[i] = <<"rsp", call, i>>
    BY <1>11
  <2>3. pkt_buffer' = Stored(frm.t_pld)
    BY <1>7, <1>10, <1>12
  <2> HIDE DEF nr, frm
  <2>4. /\ frm.t_size \in Nat /\ Len(frm.t_pld) = frm.t_size
        /\ \A j \in 1..frm.t_size : frm.t_pld[j] = <<"rsp", call, Off(nr) + j>>
    <3>1. PICK n \in Nat : n = Size
      BY <1>3
    <3>2. nr \in 1..FrameCount(n) /\ frm = ReplyPart(call, n, nr)
      BY <2>1, <3>1
    <3>3. frm.t_size \in Nat /\ Len(frm.t_pld) = frm.t_size
      BY <3>2, PartFacts
    <3>4. \A j \in 1..ReplyPart(call, n, nr).t_size :
            ReplyPart(call, n, nr).t_pld[j] = <<"rsp", call, Off(nr) + j>>
      BY <3>2, PartPayload
    <3> QED
      BY <3>2, <3>3, <3>4
  <2>5. PICK t \in Nat, pld \in {frm.t_pld} : t = frm.t_size
    BY <2>4
  <2>6. /\ Len(pld) = t /\ p + t < PKT_SIZE_MAX
        /\ \A j \in 1..t : pld[j] = <<"rsp", call, p + j>>
    BY <2>2, <2>4, <2>5
  <2>7. \A i \in 1..(p + t) : Stored(pld)[i] = <<"rsp", call, i>>
    BY <2>2, <2>6, StoredBytes
  <2> QED
    BY <2>3, <2>5, <2>7
<1> HIDE DEF nr, frm
<1>14. \/ nr < Count /\ pc' = "hdr"
       \/ /\ nr = Count /\ pc' = "idle"
          /\ pkt_size' = p' /\ result' = com_result'
          /\ bep_result' = BepResultOf(pkt_buffer')
  BY <1>3, <1>6, <1>7, <1>12
<1>15. \/ /\ p + frm.t_size < PKT_SIZE_MAX
          /\ p' = p + frm.t_size
          /\ com_result' = com_result
       \/ /\ p + frm.t_size >= PKT_SIZE_MAX
          /\ p' = p /\ com_result' = "NO_MEMORY"
          /\ pkt_buffer' = pkt_buffer
  BY <1>7, <1>10, <1>12
<1> QED
  BY <1>2, <1>3, <1>4, <1>6, <1>7, <1>8, <1>11, <1>12, <1>13, <1>14, <1>15
  DEF nr, frm

\* With nothing on the bus there is nothing to say of it.
LEMMA EmptyBus ==
  ASSUME Len(mTx') = 0
  PROVE  /\ Acked'
         /\ mJob'.phase # "body" => ~NextIsBody'
         /\ /\ mJob'.phase \in {"none", "await"}
            /\ mJob'.phase = "await" => mJob'.nr = FrameCount(rsp'[mJob'.call].size)
            => Quiet'
BY DEF Acked, NextIsBody, Quiet

\* A frame of the reply with another behind it.
LEMMA FrameGoesOn ==
  ASSUME Inv, SafeInv, pc = "body", mTx # <<>>, Head(mTx).kind = "body",
         NEW b, b = BodyRead(Head(mTx)), CrcMatches(b), Reassemble(b), txrx' = b,
         mRx' = Append(mRx, AckWrite), mTx' = Tail(mTx), pc' = "hdr",
         UNCHANGED <<call, cmdSize, mCmd, mJob, rsp>>
  PROVE  SafeInv'
<1> DEFINE nr == b.frm.t_seq_nr
<1>1. /\ Executed /\ Size \in Nat
      /\ Count = FrameCount(Size) /\ Count \in Nat
      /\ nr \in 1..Count /\ nr < Count
      /\ b.frm = mTx[1].frm
      /\ b.frm.t_seq_len = Count
      /\ b.crc_size = LinkSize(b.frm)
      /\ b.frm.t_size = APP_MTU
      /\ Off(nr) \in Nat /\ p <= Off(nr) /\ Off(nr) + APP_MTU <= Size
      /\ mJob.phase # "none" => nr <= mJob.nr
      /\ mJob.phase \in {"hdr", "body"} => nr < mJob.nr
      /\ com_result = "OK" =>
           /\ p = Off(nr)
           /\ nr = seq_nr + 1
           /\ p + APP_MTU < PKT_SIZE_MAX =>
                \A i \in 1..(p + APP_MTU) : pkt_buffer'[i] = <<"rsp", call, i>>
      /\ seq_nr' = nr
      /\ \/ p' = p + APP_MTU /\ com_result' = com_result
            /\ p + APP_MTU < PKT_SIZE_MAX
         \/ p' = p /\ com_result' = "NO_MEMORY"
            /\ p + APP_MTU >= PKT_SIZE_MAX
  <2>1. nr < Count
    BY FrameRead
  <2>2. b.frm.t_size = APP_MTU
    BY <2>1, FrameRead
  <2> QED
    BY <2>1, <2>2, FrameRead
<1> HIDE DEF nr
<1>2. /\ Len(mTx) \in Nat /\ Len(mTx) >= 1
      /\ Len(mTx') = Len(mTx) - 1
      /\ \A i \in 1..Len(mTx') : mTx'[i] = mTx[i + 1] /\ i + 1 \in 2..Len(mTx)
      /\ Head(mTx) = mTx[1]
  BY Ranges, TailOf
<1>3. Job /\ Stream /\ Alternate /\ Exact
  BY DEF SafeInv, Reply, Replying
<1>4. /\ Size' = Size /\ Count' = Count /\ Executed'
      /\ Got = p /\ Got' = p' /\ Had = seq_nr /\ Had' = nr
  BY <1>1 DEF Size, Count, Executed, Got, Had
<1>5. /\ p \in Nat /\ p' \in Nat /\ APP_MTU \in Nat /\ APP_MTU > 0
      /\ PKT_SIZE_MAX \in Nat
      /\ nr \in Nat /\ nr >= 1 /\ seq_nr \in Nat
      /\ Off(nr) \in Nat
      /\ p' <= Off(nr) + APP_MTU
  <2>1. /\ p \in Nat /\ APP_MTU \in Nat /\ APP_MTU > 0 /\ PKT_SIZE_MAX \in Nat
        /\ seq_nr \in Nat
    BY Ranges, MtuFacts
  <2>2. nr \in Nat /\ nr >= 1 /\ Off(nr) \in Nat /\ p <= Off(nr)
    BY <1>1
  <2>3. p' = p + APP_MTU \/ p' = p
    BY <1>1
  <2> QED
    BY <2>1, <2>2, <2>3
<1>6. CommandIntact' /\ RspInv'
  BY DEF SafeInv, CommandIntact, RspInv
<1>7. Written' /\ Len(mRx) \in Nat /\ Len(mRx') = Len(mRx) + 1
  BY AckWritten
<1>8. Acked'
  <2>1. \A i \in 1..Len(mTx) : mTx[i].kind # "ack"
    BY DEF SafeInv, Acked, Failing
  <2> QED
    BY <2>1, <1>2 DEF Acked
<1>9. Job'
  <2> SUFFICES ASSUME mJob.phase # "none"
               PROVE  /\ mJob.call = call
                      /\ mJob.nr \in 1..Count
                      /\ mJob.sent = Off(mJob.nr)
                      /\ mJob.phase = "await" => p' <= Off(mJob.nr) + APP_MTU
                      /\ mJob.phase # "await" => p' <= Off(mJob.nr)
    BY <1>4 DEF Job
  <2>1. /\ mJob.call = call /\ mJob.nr \in 1..Count /\ mJob.nr \in Nat
        /\ mJob.sent = Off(mJob.nr)
        /\ mJob.phase \in {"hdr", "body", "await"}
        /\ Off(mJob.nr) \in Int
    <3>1. mJob.phase \in {"hdr", "body", "await"}
      BY DEF Inv, TypeOK, ModuleTypes, Jobs
    <3>2. mJob.call = call /\ mJob.nr \in 1..Count /\ mJob.sent = Off(mJob.nr)
      BY <1>3 DEF Job
    <3>3. mJob.nr \in Nat
      BY <1>1, <3>2
    <3> QED
      BY <3>1, <3>2, <3>3, OffStep
  <2>2. nr < mJob.nr => Off(nr) + APP_MTU <= Off(mJob.nr)
    BY <2>1, <1>5, OffMono
  <2>3. CASE mJob.phase = "await"
    <3>1. nr <= mJob.nr
      BY <1>1
    <3>2. Off(nr) <= Off(mJob.nr)
      BY <3>1, <2>1, <2>2, <1>5
    <3> QED
      BY <2>1, <2>3, <3>2, <1>5
  <2>4. CASE mJob.phase \in {"hdr", "body"}
    <3>1. nr < mJob.nr
      BY <2>4, <1>1
    <3> QED
      BY <2>1, <2>2, <2>4, <3>1, <1>5
  <2> QED
    BY <2>1, <2>3, <2>4
<1>10. Stream' /\ Alternate'
  <2>1. ASSUME NEW i \in 2..Len(mTx), mTx[i].kind = "body"
        PROVE  Got' <= Off(mTx[i].frm.t_seq_nr)
    <3> DEFINE m == mTx[i].frm.t_seq_nr
    <3>1. /\ i \in 1..Len(mTx) /\ 1 \in 1..Len(mTx) /\ 1 < i
          /\ mTx[1].kind = "body"
      BY <1>2
    <3>2. BodyOf(i) /\ nr < m
      BY <3>1, <2>1, <1>1, <1>3 DEF Stream, nr
    <3>3. m \in Nat
      BY <3>2, <1>1 DEF BodyOf
    <3> HIDE DEF m
    <3>4. Off(nr) + APP_MTU <= Off(m) /\ Off(m) \in Int
      BY <3>2, <3>3, <1>5, OffMono, OffStep
    <3> QED
      BY <3>4, <1>4, <1>5 DEF m
  <2> QED
    BY <2>1, <1>3, StreamShift
<1>11. Exact'
  <2> SUFFICES ASSUME com_result' = "OK"
               PROVE  Exact'
    BY DEF Exact
  <2>1. /\ com_result = "OK" /\ p' = p + APP_MTU
        /\ p = Off(nr) /\ nr = seq_nr + 1
        /\ \A i \in 1..p' : pkt_buffer'[i] = <<"rsp", call, i>>
    BY <1>1
  <2>2. \A i \in 1..Len(mTx') : mTx'[i].kind # "body"
    <3> SUFFICES ASSUME NEW i \in 1..Len(mTx'), mTx'[i].kind = "body"
                 PROVE  FALSE
      OBVIOUS
    <3>1. /\ i + 1 \in 1..Len(mTx) /\ 1 \in 1..Len(mTx) /\ 1 < i + 1
          /\ mTx[i + 1].kind = "body" /\ mTx[1].kind = "body"
      BY <1>2
    <3>2. nr < mTx[i + 1].frm.t_seq_nr
      BY <3>1, <1>1, <1>3 DEF Stream, nr
    <3>3. mTx[i + 1].frm.t_seq_nr = seq_nr + 1
      BY <3>1, <2>1, <1>3, <1>4 DEF Exact
    <3> QED
      BY <3>2, <3>3, <2>1, <1>5
  <2>3. mJob.phase \notin {"hdr", "body"}
    <3>1. mJob.phase \in {"hdr", "body"} => mJob.nr = seq_nr + 1
      BY <2>1, <1>3, <1>4 DEF Exact
    <3> QED
      BY <3>1, <2>1, <1>1, <1>5
  <2>4. mJob.phase = "await" => mJob.nr = nr /\ Len(mRx') <= 1
    <3>1. mJob.phase = "await" => \/ mJob.nr = seq_nr + 1 /\ Len(mRx) = 0
                                  \/ mJob.nr = seq_nr
      BY <2>1, <1>3, <1>4 DEF Exact
    <3>2. mJob.phase = "await" => nr <= mJob.nr
      BY <1>1
    <3> QED
      BY <3>1, <3>2, <2>1, <1>5, <1>7
  <2>5. pc' # "ack" /\ p' = Off(seq_nr') + APP_MTU /\ seq_nr' < Count'
    BY <2>1, <1>1, <1>4
  <2> QED
    BY <2>1, <2>2, <2>3, <2>4, <2>5, <1>4 DEF Exact
<1>12. Reply'
  BY <1>4, <1>9, <1>10, <1>11 DEF Reply
<1>13. Read'
  BY <1>1, <1>5 DEF Read
<1>14. InStep'
  <2>1. ~NextIsBody'
    <3>1. CASE Len(mTx) = 1
      <4>1. mTx[Len(mTx)].kind = "body" /\ Len(mTx) > 0 /\ Len(mTx') = 0
        BY <3>1, <1>2
      <4>2. mJob.phase # "body"
        BY <4>1, <1>3 DEF Alternate
      <4>3. mJob'.phase # "body"
        BY <4>2
      <4> QED
        BY <4>1, <4>3, EmptyBus
    <3>2. CASE Len(mTx) > 1
      <4>1. mTx[2].kind = "hdr" /\ mTx'[1] = mTx[2] /\ Len(mTx') > 0
        BY <3>2, <1>2, <1>3 DEF Alternate
      <4> QED
        BY <4>1 DEF NextIsBody
    <3> QED
      BY <3>1, <3>2, <1>2
  <2> QED
    BY <2>1 DEF InStep
<1>15. Com'
  <2>1. com_result # "TIMEOUT" /\ (com_result = "NO_MEMORY" => Size >= PKT_SIZE_MAX)
    BY DEF SafeInv, Com
  <2>2. p + APP_MTU >= PKT_SIZE_MAX => Size >= PKT_SIZE_MAX
    BY <1>1, <1>5
  <2> QED
    BY <2>1, <2>2, <1>1, <1>4 DEF Com
<1>16. Between' /\ Building' /\ Sending' /\ Done'
  BY DEF Between, Building, Sending, Done
<1> QED
  BY <1>6, <1>7, <1>8, <1>12, <1>13, <1>14, <1>15, <1>16 DEF SafeInv

\* The last frame of the reply: nothing is left behind, and if all went well the
\* whole of it is in pkt_buffer.
LEMMA LastFrame ==
  ASSUME Inv, SafeInv, pc = "body", mTx # <<>>, Head(mTx).kind = "body",
         NEW b, b = BodyRead(Head(mTx)), CrcMatches(b), Reassemble(b),
         mRx' = Append(mRx, AckWrite), mTx' = Tail(mTx), pc' = "idle",
         UNCHANGED <<call, cmdSize, mCmd, mJob, rsp>>
  PROVE  SafeInv'
<1> DEFINE nr == b.frm.t_seq_nr
           t_size == b.frm.t_size
<1>1. /\ Executed /\ Size \in Nat /\ Size > 0
      /\ Count = FrameCount(Size) /\ Count \in Nat
      /\ nr \in 1..Count /\ nr = Count
      /\ t_size \in Nat
      /\ Off(nr) \in Nat /\ p <= Off(nr) /\ Off(nr) + t_size = Size
      /\ mJob.phase # "none" => nr <= mJob.nr
      /\ mJob.phase \in {"hdr", "body"} => nr < mJob.nr
      /\ ~(Len(mTx) > 1)
      /\ com_result = "OK" =>
           /\ p = Off(nr)
           /\ p + t_size < PKT_SIZE_MAX =>
                \A i \in 1..(p + t_size) : pkt_buffer'[i] = <<"rsp", call, i>>
      /\ \/ p' = p + t_size /\ com_result' = com_result
            /\ p + t_size < PKT_SIZE_MAX
         \/ p' = p /\ com_result' = "NO_MEMORY"
            /\ p + t_size >= PKT_SIZE_MAX
      /\ pkt_size' = p' /\ result' = com_result'
      /\ bep_result' = BepResultOf(pkt_buffer')
  <2>1. nr = Count
    BY FrameRead
  <2>2. Off(nr) + t_size = Size
    BY <2>1, FrameRead
  <2>3. ~(Len(mTx) > 1)
    BY <2>1, FrameRead
  <2> QED
    BY <2>1, <2>2, <2>3, FrameRead
<1> HIDE DEF nr, t_size
<1>2. Len(mTx') = 0
  <2>1. Len(mTx) \in Nat /\ Len(mTx) >= 1 /\ Len(mTx') = Len(mTx) - 1
    BY Ranges, TailOf
  <2> QED
    BY <2>1, <1>1
<1>3. CommandIntact' /\ RspInv'
  BY DEF SafeInv, CommandIntact, RspInv
<1>4. Written' /\ Acked'
  <2>1. Written'
    BY AckWritten
  <2>2. Acked'
    BY <1>2, EmptyBus
  <2> QED
    BY <2>1, <2>2
<1>5. Quiet'
  <2>1. /\ mJob.phase # "none" => /\ mJob.call = call /\ mJob.nr \in 1..Count
                                  /\ mJob.nr \in Nat
        /\ mJob.phase \in {"none", "hdr", "body", "await"}
    <3>1. mJob.phase # "none" => mJob.call = call /\ mJob.nr \in 1..Count
      BY DEF SafeInv, Reply, Replying, Job
    <3>2. mJob.phase \in {"none", "hdr", "body", "await"}
      BY DEF Inv, TypeOK, ModuleTypes, Jobs
    <3> QED
      BY <3>1, <3>2, <1>1
  <2>2. mJob.phase \in {"none", "await"}
    BY <2>1, <1>1
  <2>3. mJob.phase = "await" => mJob.nr = FrameCount(rsp[mJob.call].size)
    BY <2>1, <1>1 DEF Size
  <2>4. /\ mJob'.phase \in {"none", "await"}
        /\ mJob'.phase = "await" => mJob'.nr = FrameCount(rsp'[mJob'.call].size)
    BY <2>2, <2>3
  <2> QED
    BY <2>4, <1>2, EmptyBus
<1>6. Done'
  <2>1. Size' = Size /\ Executed' /\ call \in Calls
    BY <1>1, Ranges DEF Size, Executed
  <2>2. ASSUME result' = "NO_MEMORY" PROVE Size >= PKT_SIZE_MAX
    <3>1. com_result = "NO_MEMORY" => Size >= PKT_SIZE_MAX
      BY DEF SafeInv, Com
    <3>2. p \in Nat /\ PKT_SIZE_MAX \in Nat
      BY Ranges
    <3> QED
      BY <2>2, <3>1, <3>2, <1>1
  <2>3. ASSUME result' = "OK" PROVE ReplyIsOurs'
    <3>1. /\ p' = Size
          /\ \A i \in 1..Size : pkt_buffer'[i] = <<"rsp", call, i>>
          /\ pkt_size' = Size
      BY <2>3, <1>1
    <3>2. SubSeq(pkt_buffer', 1, Size) = RspPacket(call, Size)
      <4>1. \A i \in 1..Size : pkt_buffer'[i] = <<"rsp", call, i>>
                               /\ pkt_buffer'[i] \in Bytes
        <5>1. \A i \in 1..Size : <<"rsp", call, i>> \in Bytes
          BY <2>1, <1>1 DEF Bytes
        <5> QED
          BY <3>1, <5>1
      <4> DEFINE s == SubSeq(pkt_buffer', 1, Size)
      <4>2. /\ s \in Seq(Bytes) /\ Len(s) = Size
            /\ \A i \in 1..Size : s[i] = <<"rsp", call, i>>
        <5>1. /\ s \in Seq(Bytes)
              /\ Len(s) = Size - 1 + 1
              /\ \A i \in 1..(Size - 1 + 1) : s[i] = pkt_buffer'[1 + i - 1]
          BY <4>1, <1>1, SubSeqProperties
        <5> QED
          BY <5>1, <4>1, <1>1
      <4> HIDE DEF s
      <4>3. s = [i \in 1..Size |-> <<"rsp", call, i>>]
        BY <4>2, <1>1, LenProperties
      <4> QED
        BY <4>3 DEF s, RspPacket
    <3>3. bep_result' = rsp[call].status
      <4>1. pkt_buffer'[1] = <<"rsp", call, 1>>
        BY <3>1, <1>1
      <4> QED
        BY <4>1, <1>1 DEF BepResultOf
    <3> QED
      BY <3>1, <3>2, <3>3, <2>1 DEF ReplyIsOurs, Size, Executed
  <2> QED
    BY <2>1, <2>2, <2>3 DEF Done
<1>7. Between' /\ Building' /\ Sending' /\ Read' /\ Reply' /\ InStep' /\ Com'
  BY <1>5 DEF Between, Building, Sending, Read, Reply, Replying, InStep, Com
<1> QED
  BY <1>3, <1>4, <1>6, <1>7 DEF SafeInv

\* The body of a frame, or what the bus has made of it.
LEMMA RxLinkBodySafe ==
  ASSUME Inv, SafeInv, RxLinkBody
  PROVE  SafeInv'
<1>1. PICK b : b = BodyRead(Head(mTx))
  OBVIOUS
<1>2. /\ pc = "body" /\ mTx # <<>> /\ mTx' = Tail(mTx)
      /\ CheckCrc(b)
      /\ UNCHANGED <<call, cmdSize, mCmd, mJob, rsp>>
  BY <1>1 DEF RxLinkBody
<1>3. CASE ReceiveFails("IO_ERROR") /\ UNCHANGED mRx
  BY <1>2, <1>3, FailSafe DEF ReceiveFails
<1>4. CASE CrcMatches(b) /\ mRx' = Append(mRx, AckWrite) /\ Reassemble(b)
  <2>1. pc' \in {"hdr", "idle"} /\ txrx' = b
    BY <1>2, <1>4 DEF Reassemble, CheckCrc
  <2>2. txrx \in [lnk_size : Nat, frm : Frames, crc_size : Nat]
    BY DEF Inv, TypeOK, BufferTypes
  <2>3. CASE Head(mTx).kind = "body"
    BY <1>1, <1>2, <1>4, <2>1, <2>3, FrameGoesOn, LastFrame
  <2>4. CASE Head(mTx).kind = "zero" /\ txrx.lnk_size = 0
    <3>1. txrx.frm.t_seq_len \in Nat /\ txrx.frm.t_seq_len >= 1
      BY <1>2, <2>2 DEF SafeInv, Read, Frames
    <3>2. b = [txrx EXCEPT !.frm = Frame(0, txrx.frm.t_seq_len, <<>>),
                           !.crc_size = 0]
      BY <1>1, <2>4 DEF BodyRead
    <3>3. /\ b.lnk_size = 0 /\ b.crc_size = 0
          /\ b.frm = Frame(0, txrx.frm.t_seq_len, <<>>)
      BY <2>2, <2>4, <3>2
    <3>4. /\ b.frm.t_size = 0 /\ b.frm.t_seq_nr = 0
          /\ b.frm.t_seq_len = txrx.frm.t_seq_len
      BY <3>3, NoBytes DEF Frame
    <3> QED
      BY <1>2, <1>4, <2>1, <3>1, <3>3, <3>4, EmptyBodySafe
  <2>5. CASE /\ Head(mTx).kind # "body"
             /\ ~(Head(mTx).kind = "zero" /\ txrx.lnk_size = 0)
    <3>1. b = [txrx EXCEPT !.crc_size = NoCrc]
      BY <1>1, <2>5 DEF BodyRead
    <3>2. b.lnk_size = txrx.lnk_size /\ b.crc_size = MTU
      BY <2>2, <3>1 DEF NoCrc
    <3>3. txrx.lnk_size + 8 <= MTU
      BY <1>2 DEF SafeInv, InStep
    <3>4. txrx.lnk_size = MTU
      BY <1>4, <3>2 DEF CrcMatches
    <3>5. txrx.lnk_size \in Nat
      BY <2>2
    <3> QED
      BY <3>3, <3>4, <3>5
  <2> QED
    BY <2>3, <2>4, <2>5
<1> QED
  BY <1>2, <1>3, <1>4 DEF CheckCrc

\* A missing body.  The module is never just late with one, so there was no header
\* of a frame either, and what passes for the body is empty.
LEMMA RxLinkBodyTimeoutSafe ==
  ASSUME Inv, SafeInv, "body" \notin Late, RxLinkBodyTimeout
  PROVE  SafeInv'
<1>1. PICK b : b = txrx
  OBVIOUS
<1>2. /\ pc = "body" /\ mTx' = mTx
      /\ CheckCrc(b)
      /\ UNCHANGED <<call, cmdSize, mCmd, mJob, rsp>>
      /\ mTx = <<>> /\ mJob.phase \in {"none", "await"}
  BY <1>1 DEF RxLinkBodyTimeout, TimesOut, MayGiveUp, ModuleSilent
<1>3. CASE ReceiveFails("IO_ERROR") /\ UNCHANGED mRx
  BY <1>2, <1>3, FailSafe DEF ReceiveFails
<1>4. CASE CrcMatches(b) /\ mRx' = Append(mRx, AckWrite) /\ Reassemble(b)
  <2>1. txrx' = b
    BY <1>2 DEF CheckCrc
  <2>2. /\ b.lnk_size \in Nat /\ b.crc_size \in Nat
        /\ b.frm.t_size \in Nat /\ b.frm.t_seq_len \in Nat
        /\ b.lnk_size = b.crc_size
    BY <1>1, <1>4 DEF Inv, TypeOK, BufferTypes, Frames, CrcMatches
  <2>3. b.lnk_size = 0 \/ b.crc_size = 0
    <3>1. Len(mTx) = 0
      BY <1>2, NoneLeft, Ranges
    <3> QED
      BY <1>1, <1>2, <3>1 DEF SafeInv, InStep
  <2>4. /\ b.frm.t_seq_len >= 1
        /\ \/ b.crc_size = LinkSize(b.frm)
           \/ b.crc_size = 0 /\ b.frm.t_size = 0 /\ b.frm.t_seq_nr = 0
    BY <1>1, <1>2 DEF SafeInv, Read
  <2>5. /\ b.lnk_size = 0 /\ b.crc_size = 0
        /\ b.frm.t_size = 0 /\ b.frm.t_seq_nr = 0
    BY <2>2, <2>3, <2>4 DEF LinkSize
  <2> QED
    BY <1>2, <1>4, <2>1, <2>2, <2>4, <2>5, EmptyBodySafe
<1> QED
  BY <1>2, <1>3, <1>4 DEF CheckCrc

-----------------------------------------------------------------------------
(* Steps of the module *)

\* A write the module has looked at, or that never arrived, is gone.
LEMMA WriteGone ==
  ASSUME Inv, SafeInv, mRx # <<>>, mRx' = Tail(mRx),
         UNCHANGED <<host, mTx, mCmd, mJob, rsp>>
  PROVE  SafeInv'
<1>1. /\ Len(mRx) \in Nat /\ Len(mRx) >= 1 /\ Len(mRx') = Len(mRx) - 1
      /\ \A i \in 1..Len(mRx') : mRx'[i] = mRx[i + 1] /\ i + 1 \in 2..Len(mRx)
  BY Ranges, TailOf
<1>2. /\ CommandIntact' /\ RspInv' /\ Between' /\ Building' /\ Sending'
      /\ Read' /\ InStep' /\ Com' /\ Done'
  BY DEF SafeInv, CommandIntact, RspInv, Between, Quiet, Building, Sending, Read,
         InStep, NextIsBody, Com, Done, ReplyIsOurs, Failing, Executed, Size, host
<1>3. Written'
  <2> SUFFICES ASSUME NEW i \in 1..Len(mRx'), mRx'[i].kind = "frame"
               PROVE  i = Len(mRx') /\ FrameSent(mRx[i])'
    BY DEF Written
  <2>1. /\ i + 1 \in 1..Len(mRx) /\ mRx[i + 1].kind = "frame"
        /\ mRx'[i] = mRx[i + 1]
    BY <1>1
  <2>2. i + 1 = Len(mRx) /\ FrameSent(mRx[i + 1])
    BY <2>1 DEF SafeInv, Written
  <2>3. FrameSent(mRx[i])'
    BY <2>1, <2>2 DEF FrameSent, Quiet, Failing, Executed, host
  <2>4. Len(mRx') = Len(mRx) - 1
    BY <1>1
  <2>5. i \in Int /\ Len(mRx) \in Int
    BY <1>1
  <2> QED
    BY <2>2, <2>3, <2>4, <2>5
<1>4. Acked'
  BY <1>1 DEF SafeInv, Acked, Failing, host
<1>5. Reply'
  <2>1. ASSUME Replying
        PROVE  Executed /\ Job /\ Stream /\ Alternate /\ Exact
    BY <2>1 DEF SafeInv, Reply
  <2>2. Replying' = Replying /\ Executed' = Executed
    BY DEF Replying, Executed, host
  <2>3. Job => Job'
    BY DEF Job, Got, Count, Size, host
  <2>4. Stream /\ Alternate => Stream' /\ Alternate'
    BY DEF Stream, BodyOf, Alternate, Got, Count, Size, host
  <2>5. Exact => Exact'
    BY <1>1 DEF Exact, Had, Count, Size, host
  <2> QED
    BY <2>1, <2>2, <2>3, <2>4, <2>5 DEF Reply
<1> QED
  BY <1>2, <1>3, <1>4, <1>5 DEF SafeInv

\* The module ends its reply, or has none: an ACK means nothing more to it.
LEMMA JobEnds ==
  ASSUME Inv, SafeInv, mRx # <<>>, mRx' = Tail(mRx), mJob' = NoJob,
         mJob.phase = "await", UNCHANGED <<host, mTx, mCmd, rsp>>
  PROVE  SafeInv'
<1>0. mJob'.phase = "none"
  BY DEF NoJob
<1>1. /\ Len(mRx) \in Nat /\ Len(mRx) >= 1 /\ Len(mRx') = Len(mRx) - 1
      /\ \A i \in 1..Len(mRx') : mRx'[i] = mRx[i + 1] /\ i + 1 \in 2..Len(mRx)
  BY Ranges, TailOf
<1>2. /\ CommandIntact' /\ RspInv' /\ Building' /\ Read' /\ Com' /\ Done'
  BY DEF SafeInv, CommandIntact, RspInv, Building, Read, Com, Done, ReplyIsOurs,
         Executed, Size, host
<1>3. Quiet => Quiet'
  BY <1>0 DEF Quiet
<1>4. Between' /\ Sending'
  BY <1>3 DEF SafeInv, Between, Sending, Failing, Executed, host
<1>5. Written'
  <2> SUFFICES ASSUME NEW i \in 1..Len(mRx'), mRx'[i].kind = "frame"
               PROVE  i = Len(mRx') /\ FrameSent(mRx[i])'
    BY DEF Written
  <2>1. /\ i + 1 \in 1..Len(mRx) /\ mRx[i + 1].kind = "frame"
        /\ mRx'[i] = mRx[i + 1] /\ i \in Int
    BY <1>1
  <2>2. i + 1 = Len(mRx) /\ FrameSent(mRx[i + 1])
    BY <2>1 DEF SafeInv, Written
  <2>3. FrameSent(mRx[i])'
    BY <2>1, <2>2, <1>3 DEF FrameSent, Failing, Executed, host
  <2>4. Len(mRx') = Len(mRx) - 1 /\ Len(mRx) \in Int
    BY <1>1
  <2> QED
    BY <2>1, <2>2, <2>3, <2>4
<1>6. Acked'
  BY <1>0, <1>1 DEF SafeInv, Acked, Failing, Executed, host
<1>7. Reply'
  <2>1. ASSUME Replying
        PROVE  Executed /\ Job /\ Stream /\ Alternate /\ Exact
    BY <2>1 DEF SafeInv, Reply
  <2>2. Replying' = Replying /\ Executed' = Executed
    BY DEF Replying, Executed, host
  <2>3. Job'
    BY <1>0 DEF Job
  <2>4. Stream => Stream'
    BY <1>0 DEF Stream, BodyOf, Got, Count, Size, host
  <2>5. Alternate => Alternate'
    BY <1>0 DEF Alternate
  <2>6. Exact => Exact'
    BY <1>0 DEF Exact, Had, Count, Size, host
  <2> QED
    BY <2>1, <2>2, <2>3, <2>4, <2>5, <2>6 DEF Reply
<1>8. InStep'
  <2>1. NextIsBody' => NextIsBody
    BY <1>0 DEF NextIsBody
  <2> QED
    BY <2>1 DEF SafeInv, InStep, host
<1> QED
  BY <1>2, <1>4, <1>5, <1>6, <1>7, <1>8 DEF SafeInv

\* The ACK of a frame that is not the last lets the module go on to the next.
LEMMA NextFrame ==
  ASSUME Inv, SafeInv, mRx # <<>>, Head(mRx).kind = "ack", mRx' = Tail(mRx),
         mJob.phase = "await", ReplyFrame.t_seq_nr < ReplyFrame.t_seq_len,
         mJob' = [mJob EXCEPT !.phase = "hdr", !.nr = mJob.nr + 1,
                              !.sent = mJob.sent + ReplyFrame.t_size],
         UNCHANGED <<host, mTx, mCmd, rsp>>
  PROVE  SafeInv'
<1>1. /\ Len(mRx) \in Nat /\ Len(mRx) >= 1 /\ Len(mRx') = Len(mRx) - 1
      /\ \A i \in 1..Len(mRx') : mRx'[i] = mRx[i + 1] /\ i + 1 \in 2..Len(mRx)
  BY Ranges, TailOf
<1>2. /\ mJob \in [phase : {"hdr", "body", "await"}, call : Calls, nr : Nat,
                   sent : Nat]
      /\ ReplyFrame.t_seq_nr = mJob.nr
      /\ ReplyFrame.t_seq_len = FrameCount(rsp[mJob.call].size)
  BY DEF Inv, TypeOK, ModuleTypes, Jobs, ReplyFrame, Frame
<1>3. PICK t_size : t_size = ReplyFrame.t_size
  OBVIOUS
<1>4. /\ mJob'.phase = "hdr" /\ mJob'.nr = mJob.nr + 1 /\ mJob'.call = mJob.call
      /\ mJob'.sent = mJob.sent + t_size
  BY <1>2, <1>3
<1>5. ~Quiet
  <2>1. /\ FrameCount(rsp[mJob.call].size) \in Nat /\ mJob.nr \in Nat
        /\ mJob.nr < FrameCount(rsp[mJob.call].size)
    <3>1. rsp[mJob.call].size \in Nat
      BY <1>2, Ranges
    <3> QED
      BY <3>1, <1>2, FrameCountType
  <2> QED
    BY <2>1 DEF Quiet
<1>6. pc # "tx" /\ (pc = "idle" => Failing)
  BY <1>5 DEF SafeInv, Between, Sending
<1>7. /\ CommandIntact' /\ RspInv' /\ Building' /\ Read' /\ Com' /\ Done'
      /\ Between' /\ Sending'
  BY <1>6 DEF SafeInv, CommandIntact, RspInv, Building, Read, Com, Done,
              ReplyIsOurs, Executed, Size, Between, Sending, Failing, host
<1>8. Written'
  <2> SUFFICES ASSUME NEW i \in 1..Len(mRx'), mRx'[i].kind = "frame"
               PROVE  i = Len(mRx') /\ FrameSent(mRx[i])'
    BY DEF Written
  <2>1. /\ i + 1 \in 1..Len(mRx) /\ mRx[i + 1].kind = "frame"
        /\ mRx'[i] = mRx[i + 1] /\ i \in Int
    BY <1>1
  <2>2. i + 1 = Len(mRx) /\ FrameSent(mRx[i + 1])
    BY <2>1 DEF SafeInv, Written
  <2>3. FrameSent(mRx[i])'
    BY <2>1, <2>2, <1>5 DEF FrameSent, Failing, Executed, host
  <2>4. Len(mRx') = Len(mRx) - 1 /\ Len(mRx) \in Int
    BY <1>1
  <2> QED
    BY <2>1, <2>2, <2>3, <2>4
<1>9. Acked'
  BY <1>1 DEF SafeInv, Acked, Failing, host
<1>10. Reply'
  <2> SUFFICES ASSUME Replying PROVE Reply'
    BY DEF Reply, Replying, host
  <2>1. Executed /\ Job /\ Stream /\ Alternate /\ Exact
    BY DEF SafeInv, Reply
  <2>2. pc # "ack"
    BY <1>1 DEF Replying, SafeInv, Acked
  <2>3. /\ pc \in {"hdr", "body"} /\ Size \in Nat /\ Count \in Nat
        /\ Count = FrameCount(Size)
    BY <2>1, <2>2, ReplySize DEF Replying, Count
  <2>4. /\ mJob.call = call /\ mJob.nr \in 1..Count
        /\ mJob.sent = Off(mJob.nr) /\ p <= Off(mJob.nr) + APP_MTU
    BY <2>1, <2>2 DEF Job, Got
  <2>5. mJob.nr < Count
    BY <2>4, <1>2 DEF Count, Size
  <2>6. t_size = APP_MTU
    <3>1. ReplyFrame = ReplyPart(call, Size, mJob.nr)
      BY <2>4, ReplyFrameIsPart DEF Size
    <3>2. PICK nr \in 1..FrameCount(Size) : nr = mJob.nr /\ nr < FrameCount(Size)
      BY <2>3, <2>4, <2>5
    <3>3. ReplyPart(call, Size, nr).t_size = APP_MTU
      BY <3>2, <2>3, FullPart
    <3> QED
      BY <3>1, <3>2, <3>3, <1>3
  <2>7. mJob.nr \in Nat /\ Off(mJob.nr + 1) = Off(mJob.nr) + APP_MTU
    BY <1>2, OffStep
  <2>8. /\ Size' = Size /\ Count' = Count /\ Executed'
        /\ Got' = p /\ Had' = seq_nr /\ Got = p /\ Had = seq_nr
    BY <2>1, <2>2 DEF Size, Count, Executed, Got, Had, host
  <2>9. Job'
    <3>1. mJob'.nr \in 1..Count
      BY <1>4, <2>3, <2>4, <2>5
    <3>2. mJob'.call = call'
      BY <1>4, <2>4 DEF host
    <3>3. mJob'.sent = Off(mJob'.nr) /\ p <= Off(mJob'.nr)
      BY <1>4, <2>4, <2>6, <2>7
    <3> QED
      BY <3>1, <3>2, <3>3, <1>4, <2>8 DEF Job
  <2>10. Stream'
    <3>1. ASSUME NEW i \in 1..Len(mTx'), mTx'[i].kind = "body" PROVE BodyOf(i)'
      <4>1. BodyOf(i) /\ mTx' = mTx
        BY <3>1, <2>1 DEF Stream
      <4>2. mTx[i].frm.t_seq_nr \in Nat
        BY <4>1, <2>3 DEF BodyOf
      <4>3. mTx[i].frm.t_seq_nr <= mJob.nr
        BY <4>1 DEF BodyOf
      <4>4. mTx[i].frm.t_seq_nr < mJob'.nr
        BY <4>2, <4>3, <1>4, <2>7
      <4>5. mTx[i].frm.t_seq_nr <= mJob'.nr
        BY <4>2, <4>4, <1>4, <2>7
      <4> QED
        BY <4>1, <4>4, <4>5, <1>4, <2>8 DEF BodyOf, host
    <3> QED
      BY <3>1, <2>1 DEF Stream
  <2>11. Alternate'
    BY <1>4, <2>1 DEF Alternate
  <2>12. Exact'
    <3> SUFFICES ASSUME com_result = "OK" PROVE Exact'
      BY <2>2 DEF Exact, host
    <3>1. mJob.nr = seq_nr /\ Len(mRx) <= 1
      BY <1>1, <2>1, <2>8 DEF Exact
    <3>2. mJob'.nr = Had' + 1 /\ Len(mRx') = 0
      <4>1. mJob'.nr = Had' + 1
        BY <3>1, <1>4, <2>8
      <4>2. Len(mRx') = Len(mRx) - 1 /\ Len(mRx) >= 1 /\ Len(mRx) \in Nat
        BY <1>1
      <4> QED
        BY <3>1, <4>1, <4>2
    <3>3. /\ p' = p /\ seq_nr' = seq_nr /\ pkt_buffer' = pkt_buffer /\ pc' = pc
          /\ call' = call /\ com_result' = com_result /\ mTx' = mTx
      BY DEF host
    <3> QED
      BY <3>2, <3>3, <1>4, <2>1, <2>2, <2>8 DEF Exact
  <2> QED
    BY <2>8, <2>9, <2>10, <2>11, <2>12 DEF Reply
<1>11. InStep'
  <2>1. NextIsBody' => NextIsBody
    BY <1>4 DEF NextIsBody
  <2> QED
    BY <2>1 DEF SafeInv, InStep, host
<1> QED
  BY <1>7, <1>8, <1>9, <1>10, <1>11 DEF SafeInv

\* The module takes an ACK.
LEMMA ModuleTakesAckSafe ==
  ASSUME Inv, SafeInv, ModuleTakesAck
  PROVE  SafeInv'
<1>1. CASE mJob.phase = "none" /\ UNCHANGED mJob
  BY <1>1, WriteGone DEF ModuleTakesAck
<1>2. CASE mJob.phase = "await" /\ mJob' = NoJob
  BY <1>2, JobEnds DEF ModuleTakesAck
<1>3. CASE /\ mJob.phase = "await"
           /\ ReplyFrame.t_seq_nr < ReplyFrame.t_seq_len
           /\ mJob' = [mJob EXCEPT !.phase = "hdr", !.nr = mJob.nr + 1,
                                   !.sent = mJob.sent + ReplyFrame.t_size]
  BY <1>3, NextFrame DEF ModuleTakesAck
<1> QED
  BY <1>1, <1>2, <1>3 DEF ModuleTakesAck

\* The module puts up the header of the next frame.
LEMMA ModulePutsHeaderSafe ==
  ASSUME Inv, SafeInv, ModulePutsHeader
  PROVE  SafeInv'
<1>1. PICK u : u = HdrUnit(LinkSize(ReplyFrame))
  OBVIOUS
<1>2. /\ mJob.phase = "hdr"
      /\ mTx' = Append(mTx, u)
      /\ mJob' = [mJob EXCEPT !.phase = "body"]
      /\ UNCHANGED <<host, mRx, mCmd, rsp>>
  BY <1>1 DEF ModulePutsHeader
<1>3. u \in Units /\ u.kind = "hdr"
  <2>1. LinkSize(ReplyFrame) \in Nat
    BY <1>2, ReplyFrameType
  <2> QED
    BY <1>1, <2>1 DEF HdrUnit, Units
<1>4. /\ Len(mTx) \in Nat /\ Len(mTx') = Len(mTx) + 1
      /\ \A i \in 1..Len(mTx) : mTx'[i] = mTx[i]
      /\ mTx'[Len(mTx) + 1] = u
  BY <1>2, <1>3, AppendTo, Ranges
<1>5. /\ mJob'.phase = "body" /\ mJob'.nr = mJob.nr /\ mJob'.call = mJob.call
      /\ mJob'.sent = mJob.sent
  BY <1>2 DEF Inv, TypeOK, ModuleTypes, Jobs
<1>6. ~Quiet
  BY <1>2 DEF Quiet
<1>7. pc # "tx" /\ (pc = "idle" => Failing)
  BY <1>6 DEF SafeInv, Between, Sending
<1>8. /\ CommandIntact' /\ RspInv' /\ Building' /\ Read' /\ Com' /\ Done'
      /\ Between' /\ Sending'
  BY <1>2, <1>7 DEF SafeInv, CommandIntact, RspInv, Building, Read, Com, Done,
              ReplyIsOurs, Executed, Size, Between, Sending, Failing, host
<1>9. Written'
  BY <1>2, <1>6 DEF SafeInv, Written, FrameSent, Failing, Executed, host
<1>10. Acked'
  <2> SUFFICES ASSUME NEW i \in 1..Len(mTx'), mTx'[i].kind = "ack"
               PROVE  /\ pc = "ack" \/ Failing
                      /\ pc = "ack" =>
                           /\ Len(mRx) = 0
                           /\ mCmd.bytes = CmdPacket(call, p)
                           /\ \A j \in (i + 1)..Len(mTx') : mTx'[j].kind # "ack"
                           /\ ~(seq_nr < seq_len)
    BY <1>2 DEF Acked, Failing, host
  <2>1. i \in 1..Len(mTx) /\ mTx[i].kind = "ack"
    BY <1>3, <1>4
  <2>2. /\ pc = "ack" \/ Failing
        /\ pc = "ack" => /\ Len(mRx) = 0
                         /\ mCmd.bytes = CmdPacket(call, p)
                         /\ \A j \in (i + 1)..Len(mTx) : mTx[j].kind # "ack"
                         /\ ~(seq_nr < seq_len)
    BY <2>1, <1>2 DEF SafeInv, Acked
  <2>3. ASSUME pc = "ack", NEW j \in (i + 1)..Len(mTx') PROVE mTx'[j].kind # "ack"
    <3>1. CASE j \in (i + 1)..Len(mTx)
      BY <2>1, <2>2, <2>3, <3>1, <1>4
    <3>2. CASE j = Len(mTx) + 1
      BY <3>2, <1>3, <1>4
    <3> QED
      BY <2>1, <3>1, <3>2, <1>4
  <2> QED
    BY <2>2, <2>3
<1>11. Replying' => Replying
  BY <1>2, <1>3, <1>4 DEF Replying, host
<1>12. Reply'
  <2> SUFFICES ASSUME Replying PROVE Reply'
    BY <1>11 DEF Reply
  <2>1. Executed /\ Job /\ Stream /\ Alternate /\ Exact
    BY DEF SafeInv, Reply
  <2>2. /\ Size' = Size /\ Count' = Count /\ Executed'
        /\ Got' = Got /\ Had' = Had
    BY <2>1, <1>2 DEF Size, Count, Executed, Got, Had, host
  <2>3. Job'
    BY <1>2, <1>5, <2>1, <2>2 DEF Job, host
  <2>4. ASSUME NEW i \in 1..Len(mTx'), mTx'[i].kind = "body"
        PROVE  i \in 1..Len(mTx) /\ mTx'[i] = mTx[i]
    BY <2>4, <1>3, <1>4
  <2>5. Stream'
    <3>1. ASSUME NEW i \in 1..Len(mTx'), mTx'[i].kind = "body" PROVE BodyOf(i)'
      <4>1. i \in 1..Len(mTx) /\ mTx'[i] = mTx[i]
        BY <3>1, <2>4
      <4> DEFINE nr == mTx[i].frm.t_seq_nr
      <4>2. /\ nr \in 1..Count
            /\ mTx[i].frm = ReplyPart(call, Size, nr)
            /\ Got <= Off(nr)
            /\ nr <= mJob.nr /\ nr < mJob.nr
        BY <3>1, <4>1, <1>2, <2>1 DEF Stream, BodyOf
      <4>3. mJob.nr \in 1..Count /\ Count \in Nat
        <5>1. mJob.nr \in 1..Count
          BY <1>2, <2>1 DEF Job
        <5>2. pc # "idle"
          BY DEF Replying
        <5> QED
          BY <5>1, <5>2, <2>1, ReplySize
      <4>4. nr < Count
        BY <4>2, <4>3
      <4> QED
        BY <4>1, <4>2, <4>4, <1>2, <1>5, <2>2 DEF BodyOf, host
    <3>2. \A i, j \in 1..Len(mTx') :
             i < j /\ mTx'[i].kind = "body" /\ mTx'[j].kind = "body" =>
               mTx'[i].frm.t_seq_nr < mTx'[j].frm.t_seq_nr
      BY <2>1, <2>4 DEF Stream
    <3> QED
      BY <3>1, <3>2 DEF Stream
  <2>6. Alternate'
    <3>1. ASSUME NEW i \in 2..Len(mTx') PROVE mTx'[i].kind \in {"ack", "hdr", "body"}
      <4>1. CASE i \in 2..Len(mTx)
        BY <4>1, <1>4, <2>1 DEF Alternate
      <4>2. CASE i = Len(mTx) + 1
        BY <4>2, <1>3, <1>4
      <4> QED
        BY <4>1, <4>2, <1>4
    <3>2. ASSUME NEW i \in 1..(Len(mTx') - 1)
          PROVE  /\ mTx'[i].kind = "hdr" => mTx'[i + 1].kind = "body"
                 /\ mTx'[i].kind \in {"body", "ack"} => mTx'[i + 1].kind = "hdr"
      <4>1. CASE i \in 1..(Len(mTx) - 1)
        BY <4>1, <1>4, <2>1 DEF Alternate
      <4>2. CASE i = Len(mTx)
        <5>1. Len(mTx) > 0 /\ mTx'[i] = mTx[Len(mTx)] /\ mTx'[i + 1].kind = "hdr"
          BY <4>2, <1>3, <1>4
        <5>2. mTx[Len(mTx)].kind # "hdr"
          BY <5>1, <1>2, <2>1 DEF Alternate
        <5> QED
          BY <5>1, <5>2
      <4> QED
        BY <4>1, <4>2, <1>4
    <3>3. mTx'[Len(mTx')].kind = "hdr"
      BY <1>3, <1>4
    <3> QED
      BY <3>1, <3>2, <3>3, <1>5 DEF Alternate
  <2>7. Exact'
    <3>1. /\ p' = p /\ seq_nr' = seq_nr /\ pkt_buffer' = pkt_buffer /\ pc' = pc
          /\ call' = call /\ com_result' = com_result /\ mRx' = mRx
      BY <1>2 DEF host
    <3>2. pc = "ack" \/ com_result = "OK" =>
            \A i \in 1..Len(mTx') :
              mTx'[i].kind = "body" => mTx'[i].frm.t_seq_nr = Had + 1
      BY <2>1, <2>4 DEF Exact
    <3> QED
      BY <3>1, <3>2, <1>2, <1>5, <2>1, <2>2 DEF Exact
  <2> QED
    BY <2>1, <2>2, <2>3, <2>5, <2>6, <2>7 DEF Reply
<1>13. InStep'
  <2>1. NextIsBody' => NextIsBody
    <3> SUFFICES ASSUME NextIsBody' PROVE NextIsBody
      OBVIOUS
    <3>1. CASE Len(mTx) = 0
      BY <3>1, <1>3, <1>4 DEF NextIsBody
    <3>2. CASE Len(mTx) = 1
      BY <3>2, <1>3, <1>4 DEF NextIsBody
    <3>3. CASE Len(mTx) > 1
      BY <3>3, <1>4 DEF NextIsBody
    <3> QED
      BY <3>1, <3>2, <3>3, <1>4
  <2> QED
    BY <2>1, <1>2, <1>4 DEF SafeInv, InStep, host
<1> QED
  BY <1>8, <1>9, <1>10, <1>12, <1>13 DEF SafeInv

\* The module puts up the body of that frame.
LEMMA ModulePutsBodySafe ==
  ASSUME Inv, SafeInv, ModulePutsBody
  PROVE  SafeInv'
<1>1. PICK u : u = BodyUnit(ReplyFrame)
  OBVIOUS
<1>2. /\ mJob.phase = "body"
      /\ mTx' = Append(mTx, u)
      /\ mJob' = [mJob EXCEPT !.phase = "await"]
      /\ UNCHANGED <<host, mRx, mCmd, rsp>>
  BY <1>1 DEF ModulePutsBody
<1>3. u \in Units /\ u.kind = "body" /\ u.frm = ReplyFrame
  <2>1. ReplyFrame \in Frames
    BY <1>2, ReplyFrameType
  <2> QED
    BY <1>1, <2>1 DEF BodyUnit, Units
<1>4. /\ Len(mTx) \in Nat /\ Len(mTx') = Len(mTx) + 1
      /\ \A i \in 1..Len(mTx) : mTx'[i] = mTx[i]
      /\ mTx'[Len(mTx) + 1] = u
  BY <1>2, <1>3, AppendTo, Ranges
<1>5. /\ mJob'.phase = "await" /\ mJob'.nr = mJob.nr /\ mJob'.call = mJob.call
      /\ mJob'.sent = mJob.sent
  BY <1>2 DEF Inv, TypeOK, ModuleTypes, Jobs
<1>6. ~Quiet
  BY <1>2 DEF Quiet
<1>7. pc # "tx" /\ (pc = "idle" => Failing)
  BY <1>6 DEF SafeInv, Between, Sending
<1>8. /\ CommandIntact' /\ RspInv' /\ Building' /\ Read' /\ Com' /\ Done'
      /\ Between' /\ Sending'
  BY <1>2, <1>7 DEF SafeInv, CommandIntact, RspInv, Building, Read, Com, Done,
              ReplyIsOurs, Executed, Size, Between, Sending, Failing, host
<1>9. Written'
  BY <1>2, <1>6 DEF SafeInv, Written, FrameSent, Failing, Executed, host
<1>10. Acked'
  <2> SUFFICES ASSUME NEW i \in 1..Len(mTx'), mTx'[i].kind = "ack"
               PROVE  /\ pc = "ack" \/ Failing
                      /\ pc = "ack" =>
                           /\ Len(mRx) = 0
                           /\ mCmd.bytes = CmdPacket(call, p)
                           /\ \A j \in (i + 1)..Len(mTx') : mTx'[j].kind # "ack"
                           /\ ~(seq_nr < seq_len)
    BY <1>2 DEF Acked, Failing, host
  <2>1. i \in 1..Len(mTx) /\ mTx[i].kind = "ack"
    BY <1>3, <1>4
  <2>2. /\ pc = "ack" \/ Failing
        /\ pc = "ack" => /\ Len(mRx) = 0
                         /\ mCmd.bytes = CmdPacket(call, p)
                         /\ \A j \in (i + 1)..Len(mTx) : mTx[j].kind # "ack"
                         /\ ~(seq_nr < seq_len)
    BY <2>1, <1>2 DEF SafeInv, Acked
  <2>3. ASSUME pc = "ack", NEW j \in (i + 1)..Len(mTx') PROVE mTx'[j].kind # "ack"
    <3>1. CASE j \in (i + 1)..Len(mTx)
      BY <2>1, <2>2, <2>3, <3>1, <1>4
    <3>2. CASE j = Len(mTx) + 1
      BY <3>2, <1>3, <1>4
    <3> QED
      BY <2>1, <3>1, <3>2, <1>4
  <2> QED
    BY <2>2, <2>3
<1>11. Replying' => Replying
  BY <1>2, <1>3, <1>4 DEF Replying, host
<1>12. Reply'
  <2> SUFFICES ASSUME Replying PROVE Reply'
    BY <1>11 DEF Reply
  <2>1. Executed /\ Job /\ Stream /\ Alternate /\ Exact
    BY DEF SafeInv, Reply
  <2>2. /\ Size' = Size /\ Count' = Count /\ Executed'
        /\ Got' = Got /\ Had' = Had
    BY <2>1, <1>2 DEF Size, Count, Executed, Got, Had, host
  <2>3. /\ Size \in Nat /\ Count \in Nat /\ Count = FrameCount(Size)
        /\ Got \in Nat /\ APP_MTU \in Nat
    <3>1. pc # "idle"
      BY DEF Replying
    <3> QED
      BY <3>1, <2>1, ReplySize, Ranges, MtuFacts DEF Count, Got
  <2>4. PICK nr \in 1..Count :
          /\ nr = mJob.nr /\ mJob.call = call /\ mJob.sent = Off(nr)
          /\ Got <= Off(nr)
    BY <1>2, <2>1 DEF Job
  <2>5. nr \in Nat /\ Off(nr) \in Int
    <3>1. nr \in Nat
      BY <2>3
    <3> QED
      BY <3>1, OffStep
  <2>6. u.frm = ReplyPart(call, Size, nr) /\ u.frm.t_seq_nr = nr
    <3>1. ReplyFrame = ReplyPart(call, Size, nr)
      BY <2>4, ReplyFrameIsPart DEF Size
    <3>2. ReplyPart(call, Size, nr).t_seq_nr = nr
      BY DEF ReplyPart, Frame
    <3> QED
      BY <1>3, <3>1, <3>2
  <2>7. Job'
    BY <1>2, <1>5, <2>2, <2>3, <2>4, <2>5 DEF Job, host
  <2>8. ASSUME NEW i \in 1..Len(mTx), mTx[i].kind = "body"
        PROVE  /\ BodyOf(i)
               /\ mTx[i].frm.t_seq_nr \in 1..Count
               /\ mTx[i].frm.t_seq_nr < nr
    BY <2>8, <1>2, <2>1, <2>4 DEF Stream, BodyOf
  <2>9. Stream'
    <3>1. ASSUME NEW i \in 1..Len(mTx'), mTx'[i].kind = "body" PROVE BodyOf(i)'
      <4>1. CASE i \in 1..Len(mTx)
        <5> DEFINE m == mTx[i].frm.t_seq_nr
        <5>1. mTx'[i] = mTx[i] /\ mTx[i].kind = "body"
          BY <3>1, <4>1, <1>4
        <5>2. /\ m \in 1..Count
              /\ mTx[i].frm = ReplyPart(call, Size, m)
              /\ Got <= Off(m)
              /\ m < nr
          BY <4>1, <5>1, <2>8 DEF BodyOf
        <5>3. m <= nr /\ m < Count
          BY <5>2, <2>3, <2>4
        <5> QED
          BY <5>1, <5>2, <5>3, <1>2, <1>5, <2>2, <2>4 DEF BodyOf, host
      <4>2. CASE i = Len(mTx) + 1
        <5>1. mTx'[i] = u /\ ~(i < Len(mTx'))
          BY <4>2, <1>4
        <5>2. u.frm.t_seq_nr <= nr
          BY <2>5, <2>6
        <5> QED
          BY <5>1, <5>2, <1>2, <1>5, <2>2, <2>4, <2>6 DEF BodyOf, host
      <4> QED
        BY <4>1, <4>2, <1>4
    <3>2. ASSUME NEW i \in 1..Len(mTx'), NEW j \in 1..Len(mTx'), i < j,
                 mTx'[i].kind = "body", mTx'[j].kind = "body"
          PROVE  mTx'[i].frm.t_seq_nr < mTx'[j].frm.t_seq_nr
      <4>1. i \in 1..Len(mTx) /\ mTx'[i] = mTx[i]
        BY <3>2, <1>4
      <4>2. CASE j \in 1..Len(mTx)
        BY <3>2, <4>1, <4>2, <1>4, <2>1 DEF Stream
      <4>3. CASE j = Len(mTx) + 1
        <5>1. mTx'[j] = u
          BY <4>3, <1>4
        <5>2. mTx[i].frm.t_seq_nr < nr
          BY <3>2, <4>1, <2>8
        <5> QED
          BY <4>1, <5>1, <5>2, <2>6
      <4> QED
        BY <4>2, <4>3, <1>4
    <3> QED
      BY <3>1, <3>2 DEF Stream
  <2>10. Alternate'
    <3>0. Len(mTx) > 0 => mTx[Len(mTx)].kind \notin {"ack", "body"}
      BY <1>2, <2>1 DEF Alternate
    <3>1. ASSUME NEW i \in 2..Len(mTx') PROVE mTx'[i].kind \in {"ack", "hdr", "body"}
      <4>1. CASE i \in 2..Len(mTx)
        BY <4>1, <1>4, <2>1 DEF Alternate
      <4>2. CASE i = Len(mTx) + 1
        BY <4>2, <1>3, <1>4
      <4> QED
        BY <4>1, <4>2, <1>4
    <3>2. ASSUME NEW i \in 1..(Len(mTx') - 1)
          PROVE  /\ mTx'[i].kind = "hdr" => mTx'[i + 1].kind = "body"
                 /\ mTx'[i].kind \in {"body", "ack"} => mTx'[i + 1].kind = "hdr"
      <4>1. CASE i \in 1..(Len(mTx) - 1)
        BY <4>1, <1>4, <2>1 DEF Alternate
      <4>2. CASE i = Len(mTx)
        <5>1. Len(mTx) > 0 /\ mTx'[i] = mTx[Len(mTx)] /\ mTx'[i + 1].kind = "body"
          BY <4>2, <1>3, <1>4
        <5> QED
          BY <5>1, <3>0
      <4> QED
        BY <4>1, <4>2, <1>4
    <3>3. mTx'[Len(mTx')].kind = "body"
      BY <1>3, <1>4
    <3> QED
      BY <3>1, <3>2, <3>3, <1>5 DEF Alternate
  <2>11. Exact'
    <3> SUFFICES ASSUME pc = "ack" \/ com_result = "OK" PROVE Exact'
      BY <1>2 DEF Exact, host
    <3>1. /\ p' = p /\ seq_nr' = seq_nr /\ pkt_buffer' = pkt_buffer /\ pc' = pc
          /\ call' = call /\ com_result' = com_result /\ mRx' = mRx
      BY <1>2 DEF host
    <3>2. nr = Had + 1 /\ Len(mRx) = 0
      BY <1>2, <2>1, <2>4 DEF Exact
    <3>3. \A i \in 1..Len(mTx') :
            mTx'[i].kind = "body" => mTx'[i].frm.t_seq_nr = Had + 1
      <4>1. \A i \in 1..Len(mTx) :
              mTx[i].kind = "body" => mTx[i].frm.t_seq_nr = Had + 1
        BY <2>1 DEF Exact
      <4> SUFFICES ASSUME NEW i \in 1..Len(mTx'), mTx'[i].kind = "body"
                   PROVE  mTx'[i].frm.t_seq_nr = Had + 1
        OBVIOUS
      <4>2. CASE i \in 1..Len(mTx)
        BY <4>1, <4>2, <1>4
      <4>3. CASE i = Len(mTx) + 1
        BY <4>3, <1>4, <2>6, <3>2
      <4> QED
        BY <4>2, <4>3, <1>4
    <3> QED
      BY <3>1, <3>2, <3>3, <1>5, <2>1, <2>2, <2>4 DEF Exact
  <2> QED
    BY <2>1, <2>2, <2>7, <2>9, <2>10, <2>11 DEF Reply
<1>13. InStep'
  <2>1. NextIsBody' => NextIsBody
    <3> SUFFICES ASSUME NextIsBody' PROVE NextIsBody
      OBVIOUS
    <3>1. CASE Len(mTx) = 0
      BY <3>1, <1>2 DEF NextIsBody
    <3>2. CASE Len(mTx) = 1
      BY <3>2, <1>2, <1>4, <1>5 DEF NextIsBody
    <3>3. CASE Len(mTx) > 1
      BY <3>3, <1>4 DEF NextIsBody
    <3>4. Len(mTx) = 0 \/ Len(mTx) = 1 \/ Len(mTx) > 1
      <4>1. Len(mTx) \in Nat
        BY <1>4
      <4> QED
        BY <4>1
    <3> QED
      BY <3>1, <3>2, <3>3, <3>4
  <2> QED
    BY <2>1, <1>2, <1>4 DEF SafeInv, InStep, host
<1> QED
  BY <1>8, <1>9, <1>10, <1>12, <1>13 DEF SafeInv

\* The bytes of a command so far and those of its next frame.
LEMMA CommandGrows ==
  ASSUME NEW c, NEW a \in Nat, NEW b \in Nat, NEW pld \in Seq(Bytes), Len(pld) = b,
         \A j \in 1..b : pld[j] = <<"cmd", c, a + j>>,
         CmdPacket(c, a) \in Seq(Bytes)
  PROVE  CmdPacket(c, a) \o pld = CmdPacket(c, a + b)
<1> DEFINE s == CmdPacket(c, a)
           t == s \o pld
<1>1. Len(s) = a /\ \A i \in 1..a : s[i] = <<"cmd", c, i>>
  <2>1. s = [i \in 1..a |-> <<"cmd", c, i>>]
    BY DEF CmdPacket
  <2>2. Len(s) \in Nat /\ DOMAIN s = 1..Len(s)
    BY LenProperties
  <2> HIDE DEF s
  <2>3. DOMAIN s = 1..a
    BY <2>1
  <2> QED
    BY <2>1, <2>2, <2>3
<1> HIDE DEF s
<1>2. /\ t \in Seq(Bytes) /\ Len(t) = a + b
      /\ \A i \in 1..(a + b) : t[i] = IF i <= a THEN s[i] ELSE pld[i - a]
  <2>1. s \in Seq(Bytes)
    BY DEF s
  <2>2. /\ t \in Seq(Bytes) /\ Len(t) = Len(s) + Len(pld)
        /\ \A i \in 1..(Len(s) + Len(pld)) :
             t[i] = IF i <= Len(s) THEN s[i] ELSE pld[i - Len(s)]
    BY <2>1, ConcatProperties
  <2> QED
    BY <2>2, <1>1
<1> HIDE DEF t
<1>3. \A i \in 1..(a + b) : t[i] = <<"cmd", c, i>>
  <2> SUFFICES ASSUME NEW i \in 1..(a + b) PROVE t[i] = <<"cmd", c, i>>
    OBVIOUS
  <2>1. CASE i <= a
    <3>1. i \in 1..a
      BY <2>1
    <3>2. s[i] = <<"cmd", c, i>>
      BY <3>1, <1>1
    <3> QED
      BY <2>1, <3>2, <1>2
  <2>2. CASE i > a
    <3>1. i - a \in 1..b /\ a + (i - a) = i
      BY <2>2
    <3>2. pld[i - a] = <<"cmd", c, i>>
      BY <3>1
    <3> QED
      BY <2>2, <3>2, <1>2
  <2> QED
    BY <2>1, <2>2
<1>4. t = [i \in 1..(a + b) |-> <<"cmd", c, i>>]
  BY <1>2, <1>3, LenProperties
<1> QED
  BY <1>4 DEF t, s, CmdPacket

\* A frame the module looks at came while the host waits for its ACK or has given
\* up, and continues the command if the module takes it for the next one.
LEMMA FrameTaken ==
  ASSUME Inv, SafeInv, mRx # <<>>, Head(mRx).kind = "frame",
         NEW w, w = Head(mRx), mRx' = Tail(mRx)
  PROVE  /\ Len(mRx') = 0
         /\ FrameSent(w)
         /\ call \in Calls
         /\ w.frm.t_pld \in Seq(Bytes)
         /\ seq_nr \in Nat /\ seq_len \in Nat
         /\ w.frm.t_seq_nr = seq_nr /\ w.frm.t_seq_len = seq_len /\ w.call = call
         /\ seq_nr = 1 => w.frm.t_pld = CmdPacket(call, p)
         /\ seq_nr # 1 /\ seq_nr = mCmd.nr + 1 =>
              mCmd.bytes \o w.frm.t_pld = CmdPacket(call, p)
<1>1. /\ Len(mRx) \in Nat /\ Len(mRx) >= 1 /\ Len(mRx') = Len(mRx) - 1
      /\ w = mRx[1] /\ 1 \in 1..Len(mRx)
  BY Ranges, TailOf
<1>2. mRx[1].kind = "frame"
  BY <1>1
<1>3. 1 = Len(mRx) /\ FrameSent(mRx[1])
  BY <1>1, <1>2 DEF SafeInv, Written
<1>4. FrameSent(w) /\ Len(mRx') = 0
  <2>1. FrameSent(w)
    BY <1>1, <1>3, Zenon
  <2>2. Len(mRx) = 1
    BY <1>3
  <2> QED
    BY <1>1, <2>1, <2>2
<1>5. w.call \in Calls /\ w.frm \in Frames /\ w.kind = "frame"
  <2>1. w \in Writes /\ w.kind = "frame"
    BY HeadWrite DEF Inv, TypeOK, BusTypes
  <2> QED
    BY <2>1 DEF Writes
<1>6. PICK pld \in Seq(Bytes) : w.frm.t_pld = pld
  BY <1>5 DEF Frames
<1>7. PICK n \in Nat : w.frm.t_size = n
  BY <1>5 DEF Frames
<1>8. /\ w.call = call /\ w.frm.t_seq_nr = seq_nr /\ w.frm.t_seq_len = seq_len
      /\ seq_nr >= 1 /\ n = Len(pld) /\ n <= p
      /\ \A j \in 1..n : pld[j] = <<"cmd", call, (p - n) + j>>
      /\ seq_nr = 1 => p = n
      /\ seq_nr > 1 /\ mCmd.nr + 1 = seq_nr => mCmd.bytes = CmdPacket(call, p - n)
  BY <1>4, <1>6, <1>7 DEF FrameSent
<1>9. p \in Nat /\ seq_nr \in Nat /\ seq_len \in Nat
  BY Ranges
<1>10. ASSUME seq_nr = 1 PROVE pld = CmdPacket(call, p)
  <2>1. p = n /\ \A j \in 1..n : pld[j] = <<"cmd", call, j>>
    BY <1>8, <1>9, <1>10
  <2>2. pld = [i \in 1..n |-> <<"cmd", call, i>>]
    BY <2>1, <1>8, LenProperties
  <2> QED
    BY <2>1, <2>2 DEF CmdPacket
<1>11. ASSUME seq_nr # 1, seq_nr = mCmd.nr + 1
       PROVE  mCmd.bytes \o pld = CmdPacket(call, p)
  <2>1. PICK a \in Nat : a = p - n /\ a + n = p
    BY <1>8, <1>9
  <2>2. mCmd.bytes = CmdPacket(call, a)
    BY <1>8, <1>9, <1>11, <2>1
  <2>3. CmdPacket(call, a) \in Seq(Bytes)
    BY <2>2 DEF Inv, TypeOK, ModuleTypes
  <2>4. \A j \in 1..n : pld[j] = <<"cmd", call, a + j>>
    BY <1>8, <2>1
  <2>5. Len(pld) = n
    BY <1>8
  <2>6. CmdPacket(call, a) \o pld = CmdPacket(call, a + n)
    BY <2>3, <2>4, <2>5, CommandGrows
  <2> QED
    BY <2>1, <2>2, <2>6
<1> QED
  BY <1>4, <1>5, <1>6, <1>8, <1>9, <1>10, <1>11

\* The module takes a frame of a command, the last one of which begins the reply.
LEMMA ModuleTakesFrameSafe ==
  ASSUME Inv, SafeInv, ModuleTakesFrame
  PROVE  SafeInv'
<1>1. PICK w : w = Head(mRx)
  OBVIOUS
<1>2. PICK bytes : bytes = IF w.frm.t_seq_nr = 1 THEN w.frm.t_pld
                           ELSE mCmd.bytes \o w.frm.t_pld
  OBVIOUS
<1>3. /\ mRx # <<>> /\ w.kind = "frame" /\ mRx' = Tail(mRx)
      /\ mJob.phase \in {"none", "await"}
      /\ UNCHANGED host
  BY <1>1 DEF ModuleTakesFrame, Listening
<1>4. /\ Len(mRx') = 0
      /\ FrameSent(w)
      /\ call \in Calls
      /\ seq_nr \in Nat /\ seq_len \in Nat
      /\ w.frm.t_seq_nr = seq_nr /\ w.frm.t_seq_len = seq_len /\ w.call = call
      /\ seq_nr = 1 \/ seq_nr = mCmd.nr + 1 => bytes = CmdPacket(call, p)
  BY <1>1, <1>2, <1>3, FrameTaken
<1>5. /\ pc = "ack" \/ Failing
      /\ ~Executed
      /\ pc = "ack" => Quiet
      /\ seq_nr = seq_len => p = cmdSize[call]
  BY <1>4 DEF FrameSent
<1>6. /\ pc \notin {"tx", "hdr", "body"} /\ pc' = pc /\ call' = call /\ p' = p
      /\ seq_nr' = seq_nr /\ seq_len' = seq_len /\ cmdSize' = cmdSize
      /\ Failing' = Failing
  BY <1>3, <1>5 DEF Failing, host
<1>7. Between' /\ Sending' /\ InStep' /\ Com' /\ Building' /\ Read' /\ Done'
  BY <1>3, <1>5, <1>6
  DEF SafeInv, Between, Sending, InStep, Com, Building, Read, Done, Failing, host
<1>8. Written'
  BY <1>4 DEF Written
<1>9. ASSUME pc = "ack"
      PROVE  /\ Len(mTx) \in Nat
             /\ Len(mTx) <= 1
             /\ \A i \in 1..Len(mTx) : mTx[i].kind \notin {"ack", "hdr", "body"}
  BY <1>5, <1>9, Ranges DEF Quiet
<1>10. CASE mJob' = NoJob /\ UNCHANGED <<mTx, rsp>>
  <2>1. CommandIntact' /\ RspInv'
    BY <1>6, <1>10 DEF SafeInv, CommandIntact, RspInv
  <2>2. ~Replying'
    BY <1>6, <1>9, <1>10 DEF Replying
  <2>3. Acked'
    BY <1>5, <1>6, <1>9, <1>10 DEF Acked
  <2> QED
    BY <1>7, <1>8, <2>1, <2>2, <2>3 DEF SafeInv, Reply
<1>11. CASE /\ seq_nr = 1 \/ seq_nr = mCmd.nr + 1
            /\ mTx' = Append(mTx, AckUnit)
            /\ mCmd' = [nr |-> seq_nr, bytes |-> bytes]
            /\ \/ seq_nr < seq_len /\ mJob' = NoJob /\ UNCHANGED rsp
               \/ /\ seq_nr = seq_len
                  /\ mJob' = [phase |-> "hdr", call |-> call, nr |-> 1, sent |-> 0]
                  /\ \E size \in RspSizes, status \in {"OK", "FAILED"} :
                       rsp' = [rsp EXCEPT ![call] =
                                 [size |-> size, status |-> status, cmd |-> bytes]]
  <2>1. AckUnit \in Units /\ AckUnit.kind = "ack"
    BY DEF AckUnit, Units
  <2>2. /\ Len(mTx) \in Nat /\ Len(mTx') = Len(mTx) + 1
        /\ \A i \in 1..Len(mTx) : mTx'[i] = mTx[i]
        /\ mTx'[Len(mTx) + 1] = AckUnit
    BY <1>11, <2>1, AppendTo, Ranges
  <2>3. mCmd'.bytes = CmdPacket(call, p)
    BY <1>4, <1>11
  <2>4. Acked'
    <3> SUFFICES ASSUME NEW i \in 1..Len(mTx'), mTx'[i].kind = "ack", pc = "ack"
                 PROVE  /\ \A j \in (i + 1)..Len(mTx') : mTx'[j].kind # "ack"
                        /\ seq_nr < seq_len => /\ i = Len(mTx')
                                               /\ mJob'.phase = "none"
                                               /\ ~Executed'
      BY <1>4, <1>5, <1>6, <2>3 DEF Acked
    <3>1. i = Len(mTx')
      BY <1>9, <2>2
    <3>2. seq_nr < seq_len => mJob'.phase = "none" /\ ~Executed'
      BY <1>4, <1>5, <1>6, <1>11 DEF NoJob, Executed
    <3> QED
      BY <3>1, <3>2, <2>2
  <2>5. CASE seq_nr < seq_len /\ UNCHANGED rsp
    <3>1. CommandIntact' /\ RspInv'
      BY <1>6, <2>5 DEF SafeInv, CommandIntact, RspInv
    <3>2. ~Replying'
      BY <1>4, <1>6, <2>5 DEF Replying
    <3> QED
      BY <1>7, <1>8, <2>4, <3>1, <3>2 DEF SafeInv, Reply
  <2>6. ASSUME NEW size \in RspSizes, NEW status \in {"OK", "FAILED"},
               seq_nr = seq_len,
               mJob' = [phase |-> "hdr", call |-> call, nr |-> 1, sent |-> 0],
               rsp' = [rsp EXCEPT ![call] =
                         [size |-> size, status |-> status, cmd |-> bytes]]
        PROVE  SafeInv'
    <3>1. /\ rsp'[call].size = size /\ rsp'[call].cmd = bytes
          /\ \A c \in Calls : c # call => rsp'[c] = rsp[c]
      BY <2>6, <1>4 DEF Inv, TypeOK, ModuleTypes
    <3>2. size \in Nat /\ size > 0
      BY TransportAssumption
    <3>3. rsp'[call] # NoRsp
      BY <3>1, <3>2 DEF NoRsp
    <3>4. CommandIntact'
      <4>1. rsp'[call].cmd = CmdPacket(call, cmdSize[call])
        BY <3>1, <2>6, <1>4, <1>5, <1>11
      <4> QED
        BY <4>1, <3>1, <1>6 DEF SafeInv, CommandIntact
    <3>5. RspInv'
      BY <3>1, <1>4, <1>6, Ranges DEF SafeInv, RspInv, Calls
    <3>6. ASSUME pc = "ack" PROVE Executed' /\ Job' /\ Stream' /\ Alternate' /\ Exact'
      <4>1. /\ Executed' /\ Got' = 0 /\ Had' = 0 /\ Size' = size
            /\ Count' = FrameCount(size) /\ Count' \in Nat /\ Count' >= 1
        BY <3>1, <3>2, <3>3, <3>6, <1>6, DivStep
        DEF Executed, Got, Had, Size, Count, FrameCount
      <4>2. /\ mJob'.phase = "hdr" /\ mJob'.call = call' /\ mJob'.nr = 1
            /\ mJob'.sent = 0
        BY <2>6, <1>6
      <4>3. Job'
        BY <4>1, <4>2, OffStep DEF Job
      <4>4. \A i \in 1..Len(mTx') : mTx'[i].kind \notin {"hdr", "body"}
        <5> SUFFICES ASSUME NEW i \in 1..Len(mTx')
                     PROVE  mTx'[i].kind \notin {"hdr", "body"}
          OBVIOUS
        <5>1. CASE i \in 1..Len(mTx)
          BY <5>1, <3>6, <1>9, <2>2
        <5>2. CASE i = Len(mTx) + 1
          BY <5>2, <2>1, <2>2
        <5> QED
          BY <5>1, <5>2, <2>2
      <4>5. Stream'
        BY <4>4 DEF Stream
      <4>6. Alternate'
        <5>1. \A i \in 2..Len(mTx') : mTx'[i].kind = "ack"
          BY <3>6, <1>9, <2>1, <2>2
        <5>2. \A i \in 1..(Len(mTx') - 1) : mTx'[i].kind \notin {"hdr", "body", "ack"}
          BY <3>6, <1>9, <2>2
        <5>3. mTx'[Len(mTx')].kind = "ack"
          BY <2>1, <2>2
        <5> QED
          BY <5>1, <5>2, <5>3, <4>2 DEF Alternate
      <4>7. Exact'
        BY <3>6, <4>1, <4>2, <4>4, <1>4, <1>6 DEF Exact
      <4> QED
        BY <4>1, <4>3, <4>5, <4>6, <4>7
    <3>7. Reply'
      BY <3>6, <1>6 DEF Reply, Replying
    <3> QED
      BY <1>7, <1>8, <2>4, <3>4, <3>5, <3>7 DEF SafeInv
  <2> QED
    BY <1>11, <2>5, <2>6
<1> QED
  BY <1>1, <1>2, <1>4, <1>10, <1>11 DEF ModuleTakesFrame

-----------------------------------------------------------------------------
(* Disturbances of the bus *)

\* A damaged unit is no longer the one it was; a header stays one.
LEMMA CorruptReadSafe ==
  ASSUME Inv, SafeInv, CorruptRead
  PROVE  SafeInv'
<1>1. PICK u : /\ u = NoiseUnit \/ \E n \in 0..(MTU - 7) : u = HdrUnit(n)
               /\ u.kind = "hdr" => Head(mTx).kind = "hdr"
               /\ mTx' = <<u>> \o Tail(mTx)
  BY DEF CorruptRead
<1>2. /\ mTx # <<>>
      /\ UNCHANGED <<host, mRx, mCmd, mJob, rsp>>
  BY DEF CorruptRead
<1>3. /\ u \in Units /\ u.kind \in {"noise", "hdr"}
      /\ u.kind = "hdr" => mTx[1].kind = "hdr"
  <2>1. u \in Units /\ u.kind \in {"noise", "hdr"}
    BY <1>1, MtuFacts DEF NoiseUnit, HdrUnit, Units
  <2>2. Head(mTx) = mTx[1]
    BY <1>2, Ranges, TailOf
  <2> QED
    BY <1>1, <2>1, <2>2
<1>4. /\ Len(mTx) \in Nat /\ Len(mTx) >= 1 /\ Len(mTx') = Len(mTx)
      /\ mTx'[1] = u
      /\ \A i \in 2..Len(mTx) : mTx'[i] = mTx[i]
  <2>1. /\ Len(mTx) \in Nat /\ Len(mTx) >= 1 /\ Tail(mTx) \in Seq(Units)
        /\ Len(Tail(mTx)) = Len(mTx) - 1
        /\ \A i \in 1..Len(Tail(mTx)) : Tail(mTx)[i] = mTx[i + 1]
    BY <1>2, Ranges, TailOf
  <2>2. /\ Len(mTx') = Len(Tail(mTx)) + 1
        /\ mTx'[1] = u
        /\ \A i \in 1..Len(Tail(mTx)) : mTx'[i + 1] = Tail(mTx)[i]
    BY <1>1, <1>3, <2>1, InFront
  <2>3. ASSUME NEW i \in 2..Len(mTx) PROVE mTx'[i] = mTx[i]
    <3>1. i - 1 \in 1..Len(Tail(mTx)) /\ (i - 1) + 1 = i
      BY <2>1
    <3> QED
      BY <3>1, <2>1, <2>2
  <2> QED
    BY <2>1, <2>2, <2>3
<1>5. PICK t : t = mTx'
  OBVIOUS
<1>6. /\ Len(t) = Len(mTx)
      /\ \A i \in 1..Len(mTx) : t[i].kind \in {"ack", "body", "zero"} =>
           t[i] = mTx[i] /\ i \in 2..Len(mTx)
      /\ \A i \in 1..Len(mTx) : t[i].kind = "hdr" => mTx[i].kind = "hdr"
      /\ t[1].kind \notin {"ack", "body", "zero"}
      /\ \A i \in 2..Len(mTx) : t[i] = mTx[i]
  <2>1. ASSUME NEW i \in 1..Len(mTx) PROVE i = 1 \/ i \in 2..Len(mTx)
    BY <1>4
  <2> QED
    BY <2>1, <1>3, <1>4, <1>5
<1>7. Quiet => Quiet'
  BY <1>2, <1>4, <1>5, <1>6 DEF Quiet
<1>8. /\ CommandIntact' /\ RspInv' /\ Between' /\ Building' /\ Sending' /\ Read'
      /\ Com' /\ Done'
  BY <1>2, <1>7
  DEF SafeInv, CommandIntact, RspInv, Between, Building, Sending, Read, Com, Done,
      ReplyIsOurs, Failing, Executed, Size, host
<1>9. Written'
  BY <1>2, <1>7 DEF SafeInv, Written, FrameSent, Failing, Executed, host
<1>10. Acked'
  <2> SUFFICES ASSUME NEW i \in 1..Len(t), t[i].kind = "ack"
               PROVE  /\ pc = "ack" \/ Failing
                      /\ pc = "ack" =>
                           /\ Len(mRx) = 0
                           /\ mCmd.bytes = CmdPacket(call, p)
                           /\ \A j \in (i + 1)..Len(t) : t[j].kind # "ack"
                           /\ seq_nr < seq_len => /\ i = Len(t)
                                                  /\ mJob.phase = "none"
                                                  /\ ~Executed
    BY <1>2, <1>5 DEF Acked, Failing, Executed, host
  <2>1. i \in 1..Len(mTx) /\ mTx[i].kind = "ack"
    BY <1>6
  <2>2. \A j \in (i + 1)..Len(t) : j \in 2..Len(mTx) /\ t[j] = mTx[j]
    BY <1>6
  <2> QED
    BY <2>1, <2>2, <1>6 DEF SafeInv, Acked
<1>11. Reply'
  <2>1. Replying' => Replying
    BY <1>2, <1>5, <1>6 DEF Replying, host
  <2> SUFFICES ASSUME Replying PROVE Reply'
    BY <2>1 DEF Reply
  <2>2. Executed /\ Job /\ Stream /\ Alternate /\ Exact
    BY DEF SafeInv, Reply
  <2>3. /\ Size' = Size /\ Count' = Count /\ Executed'
        /\ Got' = Got /\ Had' = Had
    BY <2>2, <1>2 DEF Size, Count, Executed, Got, Had, host
  <2>4. Job'
    BY <1>2, <2>2, <2>3 DEF Job, host
  <2>5. Stream'
    <3>1. ASSUME NEW i \in 1..Len(t), t[i].kind = "body" PROVE BodyOf(i)'
      <4>1. i \in 1..Len(mTx) /\ t[i] = mTx[i] /\ mTx[i].kind = "body"
        BY <3>1, <1>6
      <4>2. BodyOf(i)
        BY <4>1, <2>2 DEF Stream
      <4> QED
        BY <4>1, <4>2, <1>2, <1>5, <1>6, <2>3 DEF BodyOf, host
    <3>2. \A i, j \in 1..Len(t) :
             i < j /\ t[i].kind = "body" /\ t[j].kind = "body" =>
               t[i].frm.t_seq_nr < t[j].frm.t_seq_nr
      BY <1>6, <2>2 DEF Stream
    <3> QED
      BY <3>1, <3>2, <1>5 DEF Stream
  <2>6. Alternate'
    <3>1. \A i \in 2..Len(t) : t[i].kind \in {"ack", "hdr", "body"}
      BY <1>6, <2>2 DEF Alternate
    <3>2. ASSUME NEW i \in 1..(Len(t) - 1)
          PROVE  /\ t[i].kind = "hdr" => t[i + 1].kind = "body"
                 /\ t[i].kind \in {"body", "ack"} => t[i + 1].kind = "hdr"
      <4>1. /\ i \in 1..Len(mTx) /\ i \in 1..(Len(mTx) - 1)
            /\ i + 1 \in 2..Len(mTx) /\ t[i + 1] = mTx[i + 1]
        BY <1>4, <1>6
      <4> QED
        BY <4>1, <1>6, <2>2 DEF Alternate
    <3>3. /\ t[Len(t)].kind = "hdr" => mJob.phase = "body"
          /\ t[Len(t)].kind \in {"ack", "body"} => mJob.phase # "body"
      <4>1. Len(mTx) \in 1..Len(mTx) /\ Len(mTx) > 0
        BY <1>4
      <4> QED
        BY <4>1, <1>6, <2>2 DEF Alternate
    <3> QED
      BY <3>1, <3>2, <3>3, <1>2, <1>5 DEF Alternate
  <2>7. Exact'
    <3>1. /\ p' = p /\ seq_nr' = seq_nr /\ pkt_buffer' = pkt_buffer /\ pc' = pc
          /\ call' = call /\ com_result' = com_result /\ mRx' = mRx /\ mJob' = mJob
      BY <1>2 DEF host
    <3>2. pc = "ack" \/ com_result = "OK" => \A i \in 1..Len(t) :
            t[i].kind = "body" => t[i].frm.t_seq_nr = Had + 1
      BY <1>6, <2>2 DEF Exact
    <3> QED
      BY <3>1, <3>2, <1>5, <2>2, <2>3 DEF Exact
  <2> QED
    BY <2>2, <2>3, <2>4, <2>5, <2>6, <2>7 DEF Reply
<1>12. InStep'
  <2>1. Len(t) > 0 /\ t[1].kind \notin {"body", "zero"}
    BY <1>4, <1>6
  <2>2. ~NextIsBody'
    BY <2>1, <1>5 DEF NextIsBody
  <2> QED
    BY <2>1, <2>2, <1>2, <1>5 DEF SafeInv, InStep, host
<1> QED
  BY <1>8, <1>9, <1>10, <1>11, <1>12 DEF SafeInv

\* A read the module knows nothing of.
LEMMA SpuriousIrqSafe ==
  ASSUME Inv, SafeInv, SpuriousIrq
  PROVE  SafeInv'
<1>1. mTx = <<>> /\ mTx' = <<ZeroUnit>> /\ UNCHANGED <<host, mRx, mCmd, mJob, rsp>>
  BY DEF SpuriousIrq
<1>2. Len(mTx) = 0 /\ Len(mTx') = 1 /\ mTx'[1].kind = "zero"
  BY <1>1, NoneLeft, Ranges DEF ZeroUnit
<1>3. Quiet => Quiet'
  BY <1>1, <1>2 DEF Quiet
<1>4. /\ CommandIntact' /\ RspInv' /\ Between' /\ Building' /\ Sending' /\ Read'
      /\ Com' /\ Done'
  BY <1>1, <1>3
  DEF SafeInv, CommandIntact, RspInv, Between, Building, Sending, Read, Com, Done,
      ReplyIsOurs, Failing, Executed, Size, host
<1>5. Written'
  BY <1>1, <1>3 DEF SafeInv, Written, FrameSent, Failing, Executed, host
<1>6. Acked'
  BY <1>2 DEF Acked
<1>7. Reply'
  <2>1. Replying' => Replying
    BY <1>1, <1>2 DEF Replying, host
  <2> SUFFICES ASSUME Replying PROVE Reply'
    BY <2>1 DEF Reply
  <2>2. Executed /\ Job /\ Stream /\ Alternate /\ Exact
    BY DEF SafeInv, Reply
  <2>3. Executed' /\ Job'
    BY <1>1, <2>2 DEF Executed, Job, Got, Count, Size, host
  <2>4. Stream' /\ Alternate'
    BY <1>2 DEF Stream, Alternate
  <2>5. Exact'
    <3>1. /\ p' = p /\ seq_nr' = seq_nr /\ pkt_buffer' = pkt_buffer /\ pc' = pc
          /\ call' = call /\ com_result' = com_result /\ mRx' = mRx /\ mJob' = mJob
          /\ Count' = Count /\ Had' = Had
      BY <1>1 DEF Count, Size, Had, host
    <3> QED
      BY <3>1, <1>2, <2>2 DEF Exact
  <2> QED
    BY <2>3, <2>4, <2>5 DEF Reply
<1>8. InStep'
  <2>1. NextIsBody' => NextIsBody
    BY <1>1, <1>2 DEF NextIsBody
  <2> QED
    BY <2>1, <1>1, <1>2 DEF SafeInv, InStep, host
<1> QED
  BY <1>4, <1>5, <1>6, <1>7, <1>8 DEF SafeInv

\* A module that has forgotten everything, but not within a frame of its reply.
LEMMA ModuleRestartSafe ==
  ASSUME Inv, SafeInv, "body" \notin Late, ModuleRestart
  PROVE  SafeInv'
<1>1. /\ mRx' = <<>> /\ mTx' = <<>> /\ mCmd' = NoCmd /\ mJob' = NoJob
      /\ pc # "body" /\ UNCHANGED <<host, rsp>>
  BY DEF ModuleRestart
<1>2. /\ Len(mRx') = 0 /\ Len(mTx') = 0 /\ mJob'.phase = "none" /\ mCmd'.nr = 0
  BY <1>1 DEF NoCmd, NoJob
<1>3. Quiet'
  BY <1>2 DEF Quiet
<1>4. CommandIntact' /\ RspInv' /\ Building' /\ Read' /\ Com' /\ Done'
  BY <1>1
  DEF SafeInv, CommandIntact, RspInv, Building, Read, Com, Done,
      ReplyIsOurs, Executed, Size, host
<1>5. Between' /\ Sending'
  <2>1. pc = "tx" => ~(seq_nr > 1 /\ mCmd'.nr + 1 = seq_nr)
    BY <1>2
  <2> QED
    BY <2>1, <1>1, <1>3 DEF SafeInv, Between, Sending, Executed, host
<1>6. Written' /\ Acked'
  BY <1>2 DEF Written, Acked
<1>7. Reply'
  <2>1. ASSUME Replying' PROVE Executed' /\ Job' /\ Stream' /\ Alternate' /\ Exact'
    <3>1. pc = "hdr"
      BY <2>1, <1>1, <1>2 DEF Replying, host
    <3>2. Executed /\ Exact
      BY <3>1 DEF SafeInv, Reply, Replying
    <3>3. Executed' /\ Job' /\ Stream' /\ Alternate'
      BY <1>1, <1>2, <3>2 DEF Executed, Job, Stream, Alternate, host
    <3>4. Exact'
      <4>1. /\ p' = p /\ seq_nr' = seq_nr /\ pkt_buffer' = pkt_buffer /\ pc' = pc
            /\ call' = call /\ com_result' = com_result /\ Count' = Count
        BY <1>1 DEF Count, Size, host
      <4> QED
        BY <4>1, <3>2, <1>2 DEF Exact
    <3> QED
      BY <3>3, <3>4
  <2> QED
    BY <2>1 DEF Reply
<1>8. InStep'
  BY <1>1, <1>2 DEF InStep, NextIsBody, host
<1> QED
  BY <1>4, <1>5, <1>6, <1>7, <1>8 DEF SafeInv

-----------------------------------------------------------------------------
(* The invariant and what follows from it *)

\* Nothing has happened yet.
LEMMA InitSafe == Init => SafeInv
<1> SUFFICES ASSUME Init PROVE SafeInv
  OBVIOUS
<1>1. /\ pc = "idle" /\ result = "NONE" /\ mRx = <<>> /\ mTx = <<>>
      /\ mJob.phase = "none" /\ \A c \in Calls : rsp[c] = NoRsp
  BY DEF Init, NoJob
<1>2. Len(mRx) = 0 /\ Len(mTx) = 0
  BY <1>1
<1>3. CommandIntact /\ RspInv
  BY <1>1 DEF CommandIntact, RspInv
<1>4. Between /\ Written /\ Acked
  BY <1>1, <1>2 DEF Between, Quiet, Written, Acked
<1>5. Building /\ Sending /\ Read /\ Reply /\ InStep /\ Com /\ Done
  BY <1>1 DEF Building, Sending, Read, Reply, Replying, InStep, Com, Done
<1> QED
  BY <1>3, <1>4, <1>5 DEF SafeInv

\* Every step keeps the invariant, provided that no call begins before the module
\* is reset after a failure.
LEMMA NextSafe ==
  ASSUME Inv, SafeInv, [Next]_vars, "body" \notin Late,
         \A n \in CmdSizes : Tranceive(n) => ~Failing
  PROVE  SafeInv'
<1>1. CASE UNCHANGED vars
  <2>1. UNCHANGED <<host, mTx, mRx, mCmd, mJob, rsp>>
    BY <1>1 DEF vars, module
  <2>2. CommandIntact' /\ RspInv' /\ Between' /\ Building' /\ Sending'
    BY <2>1
    DEF SafeInv, CommandIntact, RspInv, Between, Building, Sending, Quiet, Failing,
        Executed, host
  <2>3. Written' /\ Acked' /\ Read' /\ InStep' /\ Com' /\ Done'
    BY <2>1
    DEF SafeInv, Written, FrameSent, Acked, Read, InStep, NextIsBody, Com, Done,
        ReplyIsOurs, Quiet, Failing, Executed, Size, host
  <2>4. Reply'
    BY <2>1
    DEF SafeInv, Reply, Replying, Job, Stream, BodyOf, Alternate, Exact, Got, Had,
        Count, Size, Executed, host
  <2> QED
    BY <2>2, <2>3, <2>4 DEF SafeInv
<1>2. ASSUME NEW n \in CmdSizes, Tranceive(n) PROVE SafeInv'
  BY <1>2, TranceiveSafe
<1>3. CASE TxLinkWrite
  BY <1>3, TxLinkWriteInv, TxLinkWriteSafe
<1>4. CASE TxLinkAckTimeout
  BY <1>4, FailSafe DEF TxLinkAckTimeout, SendFails, module
<1>5. CASE NoHeader
  BY <1>5, FailSafe DEF NoHeader, ReceiveFails, module
<1>6. CASE HostStep
  BY <1>2, <1>3, <1>4, <1>5, <1>6, TxLinkAckSafe, RxLinkHeaderSafe, RxLinkBodySafe,
     RxLinkBodyTimeoutSafe, HwResetSafe
     DEF HostStep, HostWaits, RxLinkHeaderTimeout, ButtonEndsWait
<1>7. CASE ModuleStep
  BY <1>7, ModuleTakesFrameSafe, ModuleTakesAckSafe, ModulePutsHeaderSafe,
     ModulePutsBodySafe DEF ModuleStep
<1>8. CASE CorruptWrite
  BY <1>8, WriteGone DEF CorruptWrite
<1>9. CASE BusFault
  BY <1>8, <1>9, CorruptReadSafe, SpuriousIrqSafe, ModuleRestartSafe DEF BusFault
<1> QED
  BY <1>1, <1>6, <1>7, <1>9 DEF Next, Finished

\* A caller that follows failures by a reset begins no call before it.
LEMMA ResetFirst ==
  ASSUME Recovers, NEW n \in CmdSizes, Tranceive(n)
  PROVE  ~Failing
BY DEF Recovers, Tranceive, Failing

\* Both invariants hold in every reachable state.
LEMMA AlwaysSafe == ASSUME Recovers PROVE Spec => [](Inv /\ SafeInv)
<1>1. Inv /\ SafeInv /\ [Next]_vars => (Inv /\ SafeInv)'
  BY NextInv, NextSafe, ResetFirst DEF Recovers
<1> QED
  BY <1>1, InitInv, InitSafe, PTL DEF Spec

\* However the calls before it ended, the command the module executes for a call
\* is the packet its caller built, byte for byte, on whatever a bus with whatever
\* disturbances, as long as failures are followed by a reset.
THEOREM CommandsArriveIntact == ASSUME Recovers PROVE Spec => []CommandIntact
<1>1. SafeInv => CommandIntact
  BY DEF SafeInv
<1> QED
  BY <1>1, AlwaysSafe, PTL

\* A call that returns OK has the reply of the module to this very call in
\* pkt_buffer, complete, in order and with its status.
THEOREM RepliesAreOurs == ASSUME Recovers PROVE Spec => []ReplyIsOurs
<1>1. SafeInv => ReplyIsOurs
  BY DEF SafeInv, Done, ReplyIsOurs
<1> QED
  BY <1>1, AlwaysSafe, PTL

\* A call that returns OK or NO_MEMORY leaves nothing of its reply to the next.
THEOREM RepliesAreDrained == ASSUME Recovers PROVE Spec => []ReplyDrained
<1>1. Inv /\ SafeInv => ReplyDrained
  <2> SUFFICES ASSUME Inv, SafeInv, pc = "idle", result \in {"OK", "NO_MEMORY"}
               PROVE  /\ \A i \in DOMAIN mTx : mTx[i].kind \notin {"ack", "hdr", "body"}
                      /\ mJob.phase \in {"none", "await"}
                      /\ mJob.phase = "await" =>
                           ReplyFrame.t_seq_nr = ReplyFrame.t_seq_len
    BY DEF ReplyDrained
  <2>1. Quiet
    BY DEF SafeInv, Between, Failing
  <2>2. DOMAIN mTx = 1..Len(mTx)
    BY Ranges, LenProperties
  <2>3. /\ ReplyFrame.t_seq_nr = mJob.nr
        /\ ReplyFrame.t_seq_len = FrameCount(rsp[mJob.call].size)
    BY DEF ReplyFrame, Frame
  <2> QED
    BY <2>1, <2>2, <2>3 DEF Quiet
<1> QED
  BY <1>1, AlwaysSafe, PTL

-----------------------------------------------------------------------------
(* The transport implements HcpExchange *)

\* Nothing a caller sees has changed: neither the calls and answers nor, between
\* calls, what the last one returned.
LEMMA NothingSeen ==
  ASSUME UNCHANGED <<call, cmdSize, rsp, result>>,
         \/ pc # "idle" /\ pc' # "idle"
         \/ UNCHANGED <<pc, pkt_buffer, pkt_size, bep_result>>
  PROVE  UNCHANGED Exchange!xvars
<1>1. CASE pc # "idle" /\ pc' # "idle"
  BY <1>1 DEF Exchange!xvars
<1>2. CASE UNCHANGED <<pc, pkt_buffer, pkt_size, bep_result>>
  BY <1>2 DEF Exchange!xvars
<1> QED
  BY <1>1, <1>2

\* Whatever way a call ends, it succeeds or fails as the abstract one does.
LEMMA EndOfCall ==
  ASSUME Inv, SafeInv, SafeInv', pc # "idle", pc' = "idle",
         UNCHANGED <<call, cmdSize, rsp>>,
         result' \in {"OK", "IO_ERROR", "NO_MEMORY", "TIMEOUT"},
         result' = "TIMEOUT" => Executed
  PROVE  Exchange!Next
<1>1. CASE result' = "OK"
  <2>1. ReplyIsOurs'
    BY <1>1 DEF SafeInv, Done
  <2>2. /\ rsp[call] # NoRsp
        /\ SubSeq(pkt_buffer', 1, pkt_size') = RspPacket(call, rsp[call].size)
        /\ bep_result' = rsp[call].status
    BY <1>1, <2>1 DEF ReplyIsOurs
  <2>3. Exchange!Succeed
    BY <1>1, <2>2 DEF Exchange!Succeed, Exchange!Executed, Exchange!NoAnswer, NoRsp,
                      Exchange!RspPacket, RspPacket
  <2> QED
    BY <2>3 DEF Exchange!Next
<1>2. CASE result' # "OK"
  <2>1. result' = "NO_MEMORY" => Executed /\ rsp[call].size >= PKT_SIZE_MAX
    BY DEF SafeInv, Done, Executed, Size
  <2>2. Exchange!Fail(result')
    BY <1>2, <2>1
    DEF Exchange!Fail, Exchange!Executed, Exchange!NoAnswer, NoRsp, Executed
  <2> QED
    BY <1>2, <2>2 DEF Exchange!Next
<1> QED
  BY <1>1, <1>2

\* The end of _rx_link and bmlite_receive, or another turn of their loop.
LEMMA CheckCrcImplements ==
  ASSUME Inv, SafeInv, SafeInv', pc = "body", NEW b, CheckCrc(b),
         UNCHANGED <<call, cmdSize, rsp>>
  PROVE  Exchange!Next \/ UNCHANGED Exchange!xvars
<1>1. CASE ReceiveFails("IO_ERROR")
  BY <1>1, EndOfCall DEF ReceiveFails
<1>2. CASE Reassemble(b)
  <2>1. com_result \in Results /\ com_result # "TIMEOUT"
    BY Ranges DEF SafeInv, Com
  <2>2. com_result' \in {"OK", "IO_ERROR", "NO_MEMORY"}
    BY <1>2, <2>1 DEF Reassemble, Results
  <2>3. \/ pc' = "hdr" /\ result' = result
        \/ pc' = "idle" /\ result' = com_result'
    BY <1>2 DEF Reassemble
  <2>4. CASE pc' = "hdr" /\ result' = result
    BY <2>4, NothingSeen
  <2>5. CASE pc' = "idle" /\ result' = com_result'
    BY <2>2, <2>5, EndOfCall
  <2> QED
    BY <2>3, <2>4, <2>5
<1> QED
  BY <1>1, <1>2 DEF CheckCrc

\* The module executes the command of the running call, or of the one that failed
\* last, and does so for the first time.
LEMMA ModuleTakesFrameImplements ==
  ASSUME Inv, SafeInv, ModuleTakesFrame
  PROVE  Exchange!Next \/ UNCHANGED Exchange!xvars
<1>1. PICK w : w = Head(mRx)
  OBVIOUS
<1>2. /\ mRx # <<>> /\ w.kind = "frame" /\ mRx' = Tail(mRx) /\ UNCHANGED host
  BY <1>1 DEF ModuleTakesFrame
<1>3. CASE UNCHANGED rsp
  BY <1>2, <1>3, NothingSeen DEF host
<1>4. PICK bytes : bytes = IF w.frm.t_seq_nr = 1 THEN w.frm.t_pld
                           ELSE mCmd.bytes \o w.frm.t_pld
  OBVIOUS
<1>5. CASE /\ w.frm.t_seq_nr = 1 \/ w.frm.t_seq_nr = mCmd.nr + 1
           /\ w.frm.t_seq_nr = w.frm.t_seq_len
           /\ \E size \in RspSizes, status \in {"OK", "FAILED"} :
                rsp' = [rsp EXCEPT ![w.call] =
                          [size |-> size, status |-> status, cmd |-> bytes]]
  <2>1. /\ bytes = CmdPacket(call, p)
        /\ w.call = call /\ call \in Calls
        /\ w.frm.t_seq_nr = seq_nr /\ w.frm.t_seq_len = seq_len
        /\ FrameSent(w)
    BY <1>1, <1>2, <1>4, <1>5, FrameTaken
  <2>2. ~Executed /\ p = cmdSize[call]
    BY <2>1, <1>5 DEF FrameSent
  <2>3. PICK size \in RspSizes, status \in {"OK", "FAILED"} :
           rsp' = [rsp EXCEPT ![call] =
                     [size |-> size, status |-> status,
                      cmd |-> CmdPacket(call, cmdSize[call])]]
    BY <1>5, <2>1, <2>2
  <2>4. call > 0
    BY <2>1 DEF Calls
  <2>5. Exchange!Execute(size, status)
    BY <1>2, <2>2, <2>3, <2>4
    DEF Exchange!Execute, Exchange!Executed, Exchange!NoAnswer, NoRsp, Executed,
        Exchange!CmdPacket, CmdPacket, host
  <2> QED
    BY <2>5 DEF Exchange!Next
<1> QED
  BY <1>1, <1>3, <1>4, <1>5 DEF ModuleTakesFrame

\* The initial states are initial states of the abstract specification.
LEMMA ExchangeStart == Init => Exchange!Init
BY DEF Init, Exchange!Init, Exchange!NoAnswer, NoRsp, Exchange!NoReply, Calls

\* Every step is a step of the abstract specification, or invisible to it.
LEMMA ExchangeStep ==
  ASSUME Inv, SafeInv, SafeInv', [Next]_vars, "OK" \notin ResetOn
  PROVE  Exchange!Next \/ UNCHANGED Exchange!xvars
<1>1. ASSUME NEW n \in CmdSizes, Tranceive(n) PROVE Exchange!Next
  <2>1. Exchange!Call(n)
    BY <1>1 DEF Tranceive, Exchange!Call, Exchange!NoReply, module
  <2> QED
    BY <2>1 DEF Exchange!Next
<1>2. CASE TxLinkWrite
  BY <1>2, NothingSeen DEF TxLinkWrite
<1>3. CASE TxLinkAck
  <2>1. pc # "idle" /\ UNCHANGED <<call, cmdSize, rsp>>
    BY <1>3 DEF TxLinkAck
  <2>2. CASE SendFails("IO_ERROR")
    BY <2>1, <2>2, EndOfCall DEF SendFails
  <2>3. CASE pc' # "idle" /\ UNCHANGED result
    BY <2>1, <2>3, NothingSeen
  <2> QED
    BY <1>3, <2>2, <2>3 DEF TxLinkAck
<1>4. CASE TxLinkAckTimeout
  BY <1>4, EndOfCall DEF TxLinkAckTimeout, SendFails, module
<1>5. CASE RxLinkHeader
  <2>1. pc # "idle" /\ UNCHANGED <<call, cmdSize, rsp>>
    BY <1>5 DEF RxLinkHeader
  <2>2. CASE ReceiveFails("IO_ERROR")
    BY <2>1, <2>2, EndOfCall DEF ReceiveFails
  <2>3. CASE pc' = "body" /\ UNCHANGED result
    BY <2>1, <2>3, NothingSeen
  <2> QED
    BY <1>5, <2>2, <2>3 DEF RxLinkHeader
<1>6. CASE NoHeader
  <2>1. Executed
    BY <1>6 DEF NoHeader, SafeInv, Reply, Replying
  <2> QED
    BY <1>6, <2>1, EndOfCall DEF NoHeader, ReceiveFails, module
<1>7. CASE RxLinkBody
  BY <1>7, CheckCrcImplements DEF RxLinkBody
<1>8. CASE RxLinkBodyTimeout
  BY <1>8, CheckCrcImplements DEF RxLinkBodyTimeout
<1>9. CASE HwReset
  <2>1. result # "OK" /\ result' # "OK"
    BY <1>9 DEF HwReset
  <2>2. Exchange!Reset
    BY <1>9, <2>1 DEF HwReset, Exchange!Reset
  <2> QED
    BY <2>2 DEF Exchange!Next
<1>10. CASE ModuleTakesFrame
  BY <1>10, ModuleTakesFrameImplements
<1>11. CASE UNCHANGED <<host, rsp>>
  BY <1>11, NothingSeen DEF host
<1>12. CASE ModuleTakesAck \/ ModulePutsHeader \/ ModulePutsBody \/ BusFault
  BY <1>11, <1>12 DEF ModuleTakesAck, ModulePutsHeader, ModulePutsBody, BusFault,
                      CorruptWrite, CorruptRead, SpuriousIrq, ModuleRestart
<1>13. CASE UNCHANGED vars
  BY <1>11, <1>13 DEF vars, module
<1>14. CASE HostStep
  BY <1>1, <1>2, <1>3, <1>4, <1>5, <1>6, <1>7, <1>8, <1>9, <1>14
  DEF HostStep, HostWaits, RxLinkHeaderTimeout, ButtonEndsWait
<1>15. CASE ModuleStep
  BY <1>10, <1>12, <1>15 DEF ModuleStep
<1> QED
  BY <1>12, <1>13, <1>14, <1>15 DEF Next, Finished

\* What bmlite_tranceive promises: commands are executed whole and at most once,
\* replies are those of the running call, TIMEOUT means that the command was
\* executed and NO_MEMORY that the reply has no room.  (After a reset that follows
\* OK the caller would look in vain for the reply in the abstract specification.)
THEOREM TransportImplementsExchange ==
  ASSUME Recovers, "OK" \notin ResetOn
  PROVE  Spec => ImplementsExchange
<1>1. (Inv /\ SafeInv) /\ (Inv /\ SafeInv)' /\ [Next]_vars
        => [Exchange!Next]_Exchange!xvars
  BY ExchangeStep
<1> QED
  BY <1>1, ExchangeStart, AlwaysSafe, PTL DEF Spec, ImplementsExchange, Exchange!Spec

-----------------------------------------------------------------------------
(* A prompt module and a quiet bus *)

\* Nothing disturbs the bus, the module is never late, and the caller does not
\* reset it after what is no failure of the transport.
Prompt == Faults = {} /\ Late = {} /\ ResetOn \subseteq {"IO_ERROR", "TIMEOUT"}

\* Frame nr of the reply to the running call.
Part(nr) == ReplyPart(call, Size, nr)

\* No call has failed.
NoFailure ==
  /\ result \in {"OK", "NO_MEMORY", "NONE"}
  /\ pc = "idle" /\ call > 0 => result # "NONE"
  /\ pc \in {"hdr", "body"} => com_result # "IO_ERROR"

\* Between calls and frames nothing is to be read; a frame in flight is the next
\* one the module expects, and once it is taken its ACK is to be read first.
InTurn ==
  /\ pc \in {"idle", "tx"} => Len(mTx) = 0
  /\ pc = "tx" /\ seq_nr > 1 => mCmd.nr + 1 = seq_nr
  /\ pc = "ack" =>
       \/ /\ Len(mTx) = 0
          /\ Len(mRx) > 0
          /\ mRx[Len(mRx)].kind = "frame"
          /\ seq_nr > 1 => mCmd.nr + 1 = seq_nr
       \/ /\ Len(mTx) > 0
          /\ mTx[1] = AckUnit
          /\ mCmd.nr = seq_nr

\* Units the host reads before the header of the next frame.
Before == IF pc = "ack" THEN 1 ELSE 0

\* The reply has come as far as the frame after Had: the module is to put up its
\* header, or its body, or has put up both.
HeaderDue ==
  /\ pc # "body" /\ Len(mTx) = Before
  /\ \/ mJob.phase = "hdr" /\ mJob.nr = Had + 1 /\ Len(mRx) = 0
     \/ /\ pc = "hdr" /\ mJob.phase = "await" /\ mJob.nr = Had
        /\ Len(mRx) = 1 /\ mRx[1].kind = "ack"

BodyDue ==
  /\ mJob.phase = "body" /\ mJob.nr = Had + 1 /\ Len(mRx) = 0
  /\ \/ pc = "body" /\ Len(mTx) = 0
     \/ /\ pc # "body" /\ Len(mTx) = Before + 1
        /\ mTx[Before + 1] = HdrUnit(LinkSize(Part(Had + 1)))

FrameDue ==
  /\ mJob.phase = "await" /\ mJob.nr = Had + 1 /\ Len(mRx) = 0
  /\ \/ pc = "body" /\ Len(mTx) = 1 /\ mTx[1] = BodyUnit(Part(Had + 1))
     \/ /\ pc # "body" /\ Len(mTx) = Before + 2
        /\ mTx[Before + 1] = HdrUnit(LinkSize(Part(Had + 1)))
        /\ mTx[Before + 2] = BodyUnit(Part(Had + 1))

OnTheWay ==
  pc \in {"hdr", "body"} \/ (pc = "ack" /\ seq_nr = seq_len /\ Len(mTx) > 0) =>
    /\ Had < Count
    /\ HeaderDue \/ BodyDue \/ FrameDue
    /\ pc = "body" => txrx.lnk_size = LinkSize(Part(Had + 1))

CleanInv == NoFailure /\ InTurn /\ OnTheWay


\* A frame of a reply fits into txrx_buffer.
LEMMA PartFits ==
  ASSUME NEW c, NEW n \in Nat, NEW nr \in 1..FrameCount(n)
  PROVE  /\ LinkSize(ReplyPart(c, n, nr)) \in Nat
         /\ LinkSize(ReplyPart(c, n, nr)) + 8 <= MTU
<1>1. PICK t \in Nat : t = ReplyPart(c, n, nr).t_size
  BY PartFacts
<1>2. FrameCount(n) \in Nat /\ nr \in Nat /\ Off(nr) \in Nat
  BY FrameEnds
<1>3. /\ Off(nr) + t <= n
      /\ nr < FrameCount(n) => t = APP_MTU
      /\ nr = FrameCount(n) => n < Off(nr) + APP_MTU
  <2>1. Off(nr) + t <= n /\ (nr < FrameCount(n) => t = APP_MTU)
    BY <1>1, PartSizes
  <2>2. nr = FrameCount(n) => n < Off(nr) + APP_MTU
    BY FrameEnds
  <2> QED
    BY <2>1, <2>2
<1>4. t <= APP_MTU
  BY <1>2, <1>3, MtuFacts
<1>5. t + 14 <= MTU
  BY <1>4, MtuFacts DEF APP_MTU, OVERHEAD
<1> QED
  BY <1>1, <1>5 DEF LinkSize

\* With a prompt module the host gives up only on what will never come.
LEMMA SilentTimeout ==
  ASSUME Prompt, Inv, NEW kind, MayGiveUp(kind)
  PROVE  /\ Len(mTx) = 0
         /\ Len(mRx) = 0
         /\ mJob.phase \in {"none", "await"}
<1>1. ModuleSilent
  BY DEF Prompt, MayGiveUp
<1> QED
  BY <1>1, NoneLeft, Ranges DEF ModuleSilent

\* A module about to put up something has acknowledged the whole command.
LEMMA ReplyDue ==
  ASSUME Inv, SafeInv, CleanInv, mJob.phase \in {"hdr", "body"}
  PROVE  /\ Had < Count
         /\ HeaderDue \/ BodyDue
         /\ pc \in {"ack", "hdr", "body"}
         /\ pc = "ack" => Len(mTx) > 0 /\ seq_nr = seq_len
         /\ Executed
         /\ Job
         /\ ReplyFrame = Part(Had + 1)
         /\ mJob.nr = Had + 1
<1>1. ~Quiet /\ ~Failing
  BY DEF Quiet, Failing, CleanInv, NoFailure
<1>2. pc \in {"ack", "hdr", "body"}
  BY <1>1 DEF SafeInv, Between, Sending, Inv, TypeOK, HostTypes
<1>3. ASSUME pc = "ack" PROVE Len(mTx) > 0 /\ seq_nr = seq_len /\ mTx[1] = AckUnit
  <2>1. Len(mTx) > 0 /\ mTx[1] = AckUnit
    <3>1. CASE Len(mRx) > 0 /\ mRx[Len(mRx)].kind = "frame"
      <4>1. Len(mRx) \in 1..Len(mRx)
        BY <3>1, Ranges
      <4>2. FrameSent(mRx[Len(mRx)])
        BY <4>1, <3>1 DEF SafeInv, Written
      <4> QED
        BY <4>2, <1>1, <1>3 DEF FrameSent
    <3> QED
      BY <1>3, <3>1 DEF CleanInv, InTurn
  <2>2. 1 \in 1..Len(mTx) /\ mTx[1].kind = "ack"
    BY <2>1, Ranges DEF AckUnit
  <2>3. ~(seq_nr < seq_len)
    BY <2>2, <1>3 DEF SafeInv, Acked
  <2>4. seq_nr <= seq_len
    BY <1>3 DEF SafeInv, Building
  <2> QED
    BY <2>1, <2>3, <2>4, Ranges
<1>4. /\ Had < Count
      /\ HeaderDue \/ BodyDue
      /\ mJob.nr = Had + 1
  BY <1>2, <1>3 DEF CleanInv, OnTheWay, HeaderDue, BodyDue, FrameDue
<1>5. Replying
  <2>1. CASE pc = "ack"
    <3>1. 1 \in 1..Len(mTx) /\ mTx[1].kind = "ack"
      BY <2>1, <1>3, Ranges DEF AckUnit
    <3> QED
      BY <3>1, <2>1, <1>3 DEF Replying
  <2> QED
    BY <2>1, <1>2 DEF Replying
<1>6. Executed /\ Job
  BY <1>5 DEF SafeInv, Reply
<1>7. mJob.call = call /\ mJob.sent = Off(mJob.nr)
  BY <1>6 DEF Job
<1>8. ReplyFrame = ReplyPart(mJob.call, rsp[mJob.call].size, mJob.nr)
  BY <1>7, ReplyFrameIsPart
<1>9. ReplyFrame = Part(Had + 1)
  BY <1>4, <1>7, <1>8 DEF Part, Size
<1> QED
  BY <1>2, <1>3, <1>4, <1>6, <1>9
-----------------------------------------------------------------------------
(* Every step keeps the exchange clean *)

\* The end of a call leaves nothing to be read.
LEMMA CallEnds ==
  ASSUME pc' = "idle", result' \in {"OK", "NO_MEMORY"}, Len(mTx') = 0
  PROVE  CleanInv'
BY DEF CleanInv, NoFailure, InTurn, OnTheWay

\* A call begins on an empty bus.
LEMMA TranceiveClean ==
  ASSUME CleanInv, NEW n \in CmdSizes, Tranceive(n)
  PROVE  CleanInv'
BY DEF CleanInv, NoFailure, InTurn, OnTheWay, Tranceive, module

\* The frame written is the next one the module expects.
LEMMA TxLinkWriteClean ==
  ASSUME Inv, CleanInv, TxLinkWrite
  PROVE  CleanInv'
<1>1. PICK w : /\ w.kind = "frame"
               /\ mRx' = Append(mRx, w)
               /\ pc = "tx" /\ pc' = "ack"
               /\ UNCHANGED <<result, seq_nr, mTx, mCmd>>
  BY DEF TxLinkWrite, FrameWrite
<1>2. Len(mTx') = 0 /\ (seq_nr > 1 => mCmd.nr + 1 = seq_nr)
  BY <1>1 DEF CleanInv, InTurn
<1>3. Len(mRx) \in Nat /\ Len(mRx') = Len(mRx) + 1 /\ mRx'[Len(mRx) + 1] = w
  BY <1>1, Ranges, AppendProperties
<1>4. Len(mRx') > 0 /\ mRx'[Len(mRx')].kind = "frame"
  BY <1>1, <1>3
<1>5. NoFailure' /\ OnTheWay'
  BY <1>1, <1>2 DEF CleanInv, NoFailure, OnTheWay
<1>6. InTurn'
  BY <1>1, <1>2, <1>4 DEF InTurn
<1> QED
  BY <1>5, <1>6 DEF CleanInv

\* The unit the host reads after a frame is its ACK, and the last ACK brings it
\* to the header of the reply.
LEMMA TxLinkAckClean ==
  ASSUME Inv, SafeInv, CleanInv, TxLinkAck
  PROVE  CleanInv'
<1>1. /\ pc = "ack" /\ mTx # <<>> /\ mTx' = Tail(mTx)
      /\ UNCHANGED <<call, mRx, mCmd, mJob, rsp>>
  BY DEF TxLinkAck
<1>2. /\ Len(mTx) \in Nat /\ Len(mTx) >= 1 /\ Head(mTx) = mTx[1]
      /\ Len(mTx') = Len(mTx) - 1
      /\ \A i \in 1..(Len(mTx) - 1) : mTx'[i] = mTx[i + 1]
  BY <1>1, TailOf, Ranges
<1>3. mTx[1] = AckUnit /\ mCmd.nr = seq_nr
  BY <1>1, <1>2 DEF CleanInv, InTurn
<1>4. 1 \in 1..Len(mTx) /\ mTx[1].kind = "ack" /\ IsAck(Head(mTx))
  BY <1>2, <1>3 DEF AckUnit, IsAck
<1>5. CASE seq_nr < seq_len
  <2>0. Len(mTx) = 1
    BY <1>1, <1>4, <1>5 DEF SafeInv, Acked
  <2>1. Len(mTx') = 0
    BY <1>2, <2>0
  <2>2. seq_nr' = seq_nr + 1 /\ pc' = "tx" /\ result' = result
    BY <1>4, <1>5, Ranges DEF TxLinkAck
  <2>3. mCmd'.nr + 1 = seq_nr'
    BY <2>2, <1>1, <1>3
  <2> QED
    BY <2>1, <2>2, <2>3, <1>1 DEF CleanInv, NoFailure, InTurn, OnTheWay
<1>6. CASE ~(seq_nr < seq_len)
  <2>1. /\ seq_nr = seq_len /\ seq_nr' = 0 /\ p' = 0 /\ com_result' = "OK"
        /\ pc' = "hdr" /\ result' = result
    BY <1>4, <1>6 DEF TxLinkAck
  <2>2. Had < Count /\ (HeaderDue \/ BodyDue \/ FrameDue)
    BY <1>1, <1>2, <2>1 DEF CleanInv, OnTheWay
  <2>3. Had = 0 /\ Had' = 0 /\ Count' = Count /\ Before = 1 /\ Before' = 0
    BY <1>1, <2>1 DEF Had, Count, Size, Before
  <2>4. HeaderDue => HeaderDue'
    BY <1>1, <1>2, <2>1, <2>3 DEF HeaderDue
  <2>5. BodyDue => BodyDue'
    <3> SUFFICES ASSUME BodyDue PROVE BodyDue'
      OBVIOUS
    <3>1. /\ Len(mTx) = 2 /\ mTx[2] = HdrUnit(LinkSize(Part(Had + 1)))
          /\ mJob.phase = "body" /\ mJob.nr = Had + 1 /\ Len(mRx) = 0
      BY <1>1, <2>3 DEF BodyDue
    <3>2. Len(mTx') = 1 /\ mTx'[1] = HdrUnit(LinkSize(Part(Had + 1)))
      BY <1>2, <3>1
    <3>3. UNCHANGED <<call, mRx, mJob, rsp>>
      BY <1>1
    <3> QED
      BY <2>1, <2>3, <3>1, <3>2, <3>3 DEF BodyDue, Part, Size
  <2>6. FrameDue => FrameDue'
    <3> SUFFICES ASSUME FrameDue PROVE FrameDue'
      OBVIOUS
    <3>1. /\ Len(mTx) = 3 /\ mTx[2] = HdrUnit(LinkSize(Part(Had + 1)))
          /\ mTx[3] = BodyUnit(Part(Had + 1))
          /\ mJob.phase = "await" /\ mJob.nr = Had + 1 /\ Len(mRx) = 0
      BY <1>1, <2>3 DEF FrameDue
    <3>2. /\ Len(mTx') = 2 /\ mTx'[1] = HdrUnit(LinkSize(Part(Had + 1)))
          /\ mTx'[2] = BodyUnit(Part(Had + 1))
      BY <1>2, <3>1
    <3>3. UNCHANGED <<call, mRx, mJob, rsp>>
      BY <1>1
    <3> QED
      BY <2>1, <2>3, <3>1, <3>2, <3>3 DEF FrameDue, Part, Size
  <2>7. OnTheWay'
    BY <2>1, <2>2, <2>3, <2>4, <2>5, <2>6 DEF OnTheWay
  <2> QED
    BY <2>1, <2>7 DEF CleanInv, NoFailure, InTurn
<1> QED
  BY <1>5, <1>6

\* The host does not wait for an ACK in vain.
LEMMA NoAckTimeout ==
  ASSUME Prompt, Inv, CleanInv, TxLinkAckTimeout
  PROVE  FALSE
<1>1. pc = "ack" /\ Len(mTx) = 0 /\ Len(mRx) = 0
  BY SilentTimeout DEF TxLinkAckTimeout, TimesOut
<1> QED
  BY <1>1 DEF CleanInv, InTurn

\* The header the host reads is that of the next frame, and fits.
LEMMA RxLinkHeaderClean ==
  ASSUME Inv, SafeInv, CleanInv, RxLinkHeader
  PROVE  CleanInv'
<1>1. /\ pc = "hdr" /\ mTx # <<>> /\ mTx' = Tail(mTx)
      /\ txrx' = [txrx EXCEPT !.lnk_size = HeaderSize(Head(mTx))]
      /\ UNCHANGED <<call, mRx, mJob, rsp>>
  BY DEF RxLinkHeader
<1>2. /\ Len(mTx) \in Nat /\ Len(mTx) >= 1 /\ Head(mTx) = mTx[1]
      /\ Len(mTx') = Len(mTx) - 1
      /\ \A i \in 1..(Len(mTx) - 1) : mTx'[i] = mTx[i + 1]
  BY <1>1, TailOf, Ranges
<1>3. Had < Count /\ Had = seq_nr /\ Before = 0 /\ (BodyDue \/ FrameDue)
  BY <1>1, <1>2 DEF CleanInv, OnTheWay, HeaderDue, Had, Before
<1>4. PICK size : size = LinkSize(Part(Had + 1))
  OBVIOUS
<1>5. Head(mTx) = HdrUnit(size)
  BY <1>1, <1>2, <1>3, <1>4 DEF BodyDue, FrameDue
<1>6. HeaderSize(Head(mTx)) = size
  BY <1>5 DEF HeaderSize, HdrUnit
<1>7. size \in Nat /\ size + 8 <= MTU
  <2>1. Executed
    BY <1>1 DEF SafeInv, Reply, Replying
  <2>2. Size \in Nat /\ Count = FrameCount(Size) /\ Count \in Nat
    BY <2>1, <1>1, ReplySize DEF Count
  <2>3. Had + 1 \in 1..FrameCount(Size)
    BY <2>2, <1>3, Ranges
  <2> QED
    BY <2>2, <2>3, <1>4, PartFits DEF Part
<1>8. ~TooLong(HeaderSize(Head(mTx)))
  BY <1>6, <1>7, MtuFacts DEF TooLong
<1>9. pc' = "body" /\ UNCHANGED <<seq_nr, com_result, result>>
  BY <1>8 DEF RxLinkHeader
<1>10. txrx'.lnk_size = size
  BY <1>1, <1>6 DEF Inv, TypeOK, BufferTypes
<1>11. Had' = Had /\ Count' = Count
  BY <1>1, <1>9 DEF Had, Count, Size
<1>12. size = LinkSize(Part(Had + 1))'
  BY <1>1, <1>4, <1>11 DEF Part, Size
<1>13. BodyDue => BodyDue'
  <2> SUFFICES ASSUME BodyDue PROVE BodyDue'
    OBVIOUS
  <2>1. /\ Len(mTx) = 1 /\ mJob.phase = "body" /\ mJob.nr = Had + 1
        /\ Len(mRx) = 0
    BY <1>1, <1>3 DEF BodyDue
  <2>2. Len(mTx') = 0
    BY <1>2, <2>1
  <2> QED
    BY <2>1, <2>2, <1>1, <1>9, <1>11 DEF BodyDue
<1>14. FrameDue => FrameDue'
  <2> SUFFICES ASSUME FrameDue PROVE FrameDue'
    OBVIOUS
  <2>1. /\ Len(mTx) = 2 /\ mTx[2] = BodyUnit(Part(Had + 1))
        /\ mJob.phase = "await" /\ mJob.nr = Had + 1 /\ Len(mRx) = 0
    BY <1>1, <1>3 DEF FrameDue
  <2>2. Len(mTx') = 1 /\ mTx'[1] = BodyUnit(Part(Had + 1))
    BY <1>2, <2>1
  <2> QED
    BY <2>1, <2>2, <1>1, <1>9, <1>11 DEF FrameDue, Part, Size
<1>15. NoFailure' /\ InTurn'
  BY <1>1, <1>9 DEF CleanInv, NoFailure, InTurn
<1>16. OnTheWay'
  BY <1>3, <1>9, <1>10, <1>11, <1>12, <1>13, <1>14 DEF OnTheWay
<1> QED
  BY <1>15, <1>16 DEF CleanInv

\* Nor does it wait for a header in vain.
LEMMA NoHeaderTimeout ==
  ASSUME Prompt, Inv, CleanInv, MayGiveUp("hdr"), NoHeader
  PROVE  FALSE
<1>1. /\ pc = "hdr" /\ Len(mTx) = 0 /\ Len(mRx) = 0
      /\ mJob.phase \in {"none", "await"}
  BY SilentTimeout DEF NoHeader
<1> QED
  BY <1>1 DEF CleanInv, OnTheWay, HeaderDue, BodyDue, FrameDue, Before

\* Nor for a body.
LEMMA NoBodyTimeout ==
  ASSUME Prompt, Inv, CleanInv, RxLinkBodyTimeout
  PROVE  FALSE
<1>1. /\ pc = "body" /\ Len(mTx) = 0 /\ Len(mRx) = 0
      /\ mJob.phase \in {"none", "await"}
  BY SilentTimeout DEF RxLinkBodyTimeout, TimesOut
<1> QED
  BY <1>1 DEF CleanInv, OnTheWay, HeaderDue, BodyDue, FrameDue

\* The body the host reads is that of the frame whose header it has read; after
\* the last frame the call ends well.
LEMMA RxLinkBodyClean ==
  ASSUME Inv, SafeInv, CleanInv, RxLinkBody
  PROVE  CleanInv'
<1>1. /\ pc = "body" /\ mTx # <<>> /\ mTx' = Tail(mTx)
      /\ UNCHANGED <<call, mJob, rsp>>
  BY DEF RxLinkBody
<1>2. PICK b : b = BodyRead(Head(mTx))
  OBVIOUS
<1>3. CheckCrc(b)
  BY <1>2 DEF RxLinkBody
<1>4. /\ Len(mTx) \in Nat /\ Len(mTx) >= 1 /\ Head(mTx) = mTx[1]
      /\ Len(mTx') = Len(mTx) - 1
  BY <1>1, TailOf, Ranges
<1>5. FrameDue /\ txrx.lnk_size = LinkSize(Part(Had + 1))
  BY <1>1, <1>4 DEF CleanInv, OnTheWay, HeaderDue, BodyDue
<1>6. /\ Len(mTx) = 1 /\ Head(mTx) = BodyUnit(Part(Had + 1)) /\ Len(mRx) = 0
      /\ mJob.phase = "await" /\ mJob.nr = Had + 1 /\ Had = seq_nr
  BY <1>1, <1>4, <1>5 DEF FrameDue, Had
<1>7. PICK frm : frm = Part(Had + 1)
  OBVIOUS
<1>8. Head(mTx).kind = "body" /\ Head(mTx).frm = frm
  BY <1>6, <1>7 DEF BodyUnit
<1>9. b.lnk_size = txrx.lnk_size /\ b.crc_size = LinkSize(frm) /\ b.frm = frm
  <2>1. b = [txrx EXCEPT !.frm = frm, !.crc_size = LinkSize(frm)]
    BY <1>2, <1>8, Zenon DEF BodyRead
  <2>2. txrx \in [lnk_size : Nat, frm : Frames, crc_size : Nat]
    BY DEF Inv, TypeOK, BufferTypes
  <2> QED
    BY <2>1, <2>2
<1>10. CrcMatches(b)
  BY <1>5, <1>7, <1>9 DEF CrcMatches
<1>11. Reassemble(b) /\ mRx' = Append(mRx, AckWrite)
  BY <1>3, <1>10 DEF CheckCrc
<1>12. PICK nr : nr = b.frm.t_seq_nr
  OBVIOUS
<1>13. /\ Executed /\ Size \in Nat /\ Count = FrameCount(Size) /\ Count \in Nat
       /\ nr \in 1..Count
       /\ seq_nr' = nr
       /\ com_result' \in {com_result, "NO_MEMORY"}
       /\ \/ nr < Count /\ pc' = "hdr"
          \/ nr = Count /\ pc' = "idle" /\ result' = com_result'
  BY <1>1, <1>2, <1>8, <1>10, <1>11, <1>12, FrameRead
<1>14. nr = Had + 1
  <2>1. Had + 1 \in 1..FrameCount(Size)
    BY <1>1, <1>6, <1>13, Ranges DEF CleanInv, OnTheWay
  <2>2. PICK n \in Nat : n = Size
    BY <1>13
  <2>3. PICK m \in 1..FrameCount(n) : m = Had + 1
    BY <2>1, <2>2
  <2>4. ReplyPart(call, n, m).t_seq_nr = m
    BY PartFacts
  <2> QED
    BY <2>2, <2>3, <2>4, <1>7, <1>9, <1>12 DEF Part
<1>15. com_result \in {"OK", "NO_MEMORY"}
  BY <1>1, Ranges DEF CleanInv, NoFailure, SafeInv, Com, Results
<1>16. Len(mTx') = 0
  BY <1>4, <1>6
<1>17. CASE pc' = "idle"
  BY <1>13, <1>15, <1>16, <1>17, CallEnds
<1>18. CASE pc' = "hdr"
  <2>1. result' = result
    BY <1>11, <1>18 DEF Reassemble
  <2>2. Len(mRx') = 1 /\ mRx'[1].kind = "ack"
    <3>1. AckWrite \in Writes /\ AckWrite.kind = "ack"
      BY DEF AckWrite, Writes
    <3> QED
      BY <3>1, <1>6, <1>11, AppendTo, Ranges
  <2>3. Had' = nr /\ Count' = Count /\ Before' = 0
    BY <1>1, <1>13, <1>18 DEF Had, Count, Size, Before
  <2>4. mJob'.phase = "await" /\ mJob'.nr = nr
    BY <1>1, <1>6, <1>14
  <2>5. HeaderDue'
    BY <1>16, <1>18, <2>2, <2>3, <2>4 DEF HeaderDue
  <2>6. OnTheWay'
    BY <1>13, <1>18, <2>3, <2>5 DEF OnTheWay
  <2>7. NoFailure'
    BY <1>13, <1>15, <1>18, <2>1 DEF CleanInv, NoFailure
  <2>8. InTurn'
    BY <1>18 DEF InTurn
  <2> QED
    BY <2>6, <2>7, <2>8 DEF CleanInv
<1> QED
  BY <1>13, <1>17, <1>18

\* The module acknowledges each frame, for each is the next one.
LEMMA ModuleTakesFrameClean ==
  ASSUME Inv, SafeInv, CleanInv, ModuleTakesFrame
  PROVE  CleanInv'
<1>1. PICK w : w = Head(mRx)
  OBVIOUS
<1>2. /\ mRx # <<>> /\ w.kind = "frame" /\ mRx' = Tail(mRx)
      /\ UNCHANGED host
  BY <1>1 DEF ModuleTakesFrame
<1>3. /\ Len(mRx') = 0 /\ FrameSent(w) /\ call \in Calls
      /\ seq_nr \in Nat /\ seq_len \in Nat
      /\ w.frm.t_seq_nr = seq_nr /\ w.frm.t_seq_len = seq_len /\ w.call = call
  BY <1>1, <1>2, FrameTaken
<1>4. pc = "ack" /\ seq_nr >= 1 /\ seq_nr <= seq_len
  <2>1. ~Failing
    BY DEF Failing, CleanInv, NoFailure
  <2>2. pc = "ack" /\ seq_nr >= 1
    BY <1>3, <2>1 DEF FrameSent
  <2> QED
    BY <2>2 DEF SafeInv, Building
<1>5. Len(mTx) = 0 /\ (seq_nr > 1 => mCmd.nr + 1 = seq_nr)
  <2>1. Len(mRx) > 0
    BY <1>2, NoneLeft, Ranges
  <2>2. ~(Len(mTx) > 0 /\ mTx[1] = AckUnit)
    <3> SUFFICES ASSUME Len(mTx) > 0, mTx[1] = AckUnit PROVE FALSE
      OBVIOUS
    <3>1. 1 \in 1..Len(mTx) /\ mTx[1].kind = "ack"
      BY Ranges DEF AckUnit
    <3> QED
      BY <3>1, <2>1, <1>4 DEF SafeInv, Acked
  <2> QED
    BY <2>2, <1>4 DEF CleanInv, InTurn
<1>6. seq_nr = 1 \/ seq_nr = mCmd.nr + 1
  BY <1>3, <1>4, <1>5
<1>6a. PICK bytes : bytes = IF w.frm.t_seq_nr = 1 THEN w.frm.t_pld
                           ELSE mCmd.bytes \o w.frm.t_pld
  OBVIOUS
<1>7. /\ mTx' = Append(mTx, AckUnit)
      /\ mCmd' = [nr |-> seq_nr, bytes |-> bytes]
      /\ \/ seq_nr < seq_len
         \/ /\ seq_nr = seq_len
            /\ mJob' = [phase |-> "hdr", call |-> call, nr |-> 1, sent |-> 0]
            /\ \E size \in RspSizes, status \in {"OK", "FAILED"} :
                 rsp' = [rsp EXCEPT ![call] =
                           [size |-> size, status |-> status, cmd |-> bytes]]
  <2>1. \/ ~(seq_nr = 1 \/ seq_nr = mCmd.nr + 1)
        \/ /\ mTx' = Append(mTx, AckUnit)
           /\ mCmd' = [nr |-> seq_nr, bytes |-> bytes]
           /\ seq_nr < seq_len
        \/ /\ mTx' = Append(mTx, AckUnit)
           /\ mCmd' = [nr |-> seq_nr, bytes |-> bytes]
           /\ seq_nr = seq_len
           /\ mJob' = [phase |-> "hdr", call |-> call, nr |-> 1, sent |-> 0]
           /\ \E size \in RspSizes, status \in {"OK", "FAILED"} :
                rsp' = [rsp EXCEPT ![call] =
                          [size |-> size, status |-> status, cmd |-> bytes]]
    BY <1>6a, <1>1, <1>3 DEF ModuleTakesFrame
  <2> QED
    BY <2>1, <1>6
<1>8. Len(mTx') = 1 /\ mTx'[1] = AckUnit
  <2>1. AckUnit \in Units
    BY DEF AckUnit, Units
  <2> QED
    BY <2>1, <1>5, <1>7, AppendTo, Ranges
<1>9. pc' = "ack" /\ UNCHANGED <<seq_nr, seq_len, call, p, result>>
  BY <1>2, <1>4 DEF host
<1>10. ASSUME seq_nr = seq_len
       PROVE  /\ mJob' = [phase |-> "hdr", call |-> call, nr |-> 1, sent |-> 0]
              /\ Count' \in Nat /\ Count' >= 1
  <2>3. PICK size \in RspSizes, status \in {"OK", "FAILED"} :
          rsp' = [rsp EXCEPT ![call] =
                    [size |-> size, status |-> status, cmd |-> bytes]]
    BY <1>3, <1>7, <1>10
  <2>4. rsp'[call].size = size
    BY <2>3, <1>3 DEF Inv, TypeOK, ModuleTypes
  <2>5. Count' = FrameCount(size) /\ size \in Nat
    BY <2>4, <1>9, SizeFacts DEF Count, Size
  <2>6. size \div APP_MTU \in Nat
    BY <2>5, DivStep
  <2> QED
    BY <1>3, <1>7, <1>10, <2>5, <2>6 DEF FrameCount
<1>11. NoFailure'
  BY <1>9 DEF CleanInv, NoFailure
<1>12. InTurn'
  BY <1>7, <1>8, <1>9 DEF InTurn
<1>13. ASSUME seq_nr = seq_len PROVE Had' < Count' /\ HeaderDue'
  <2>1. Had' = 0 /\ Before' = 1
    BY <1>9 DEF Had, Before
  <2>2. mJob'.phase = "hdr" /\ mJob'.nr = 1
    BY <1>10, <1>13
  <2> QED
    BY <2>1, <2>2, <1>3, <1>8, <1>9, <1>10, <1>13 DEF HeaderDue
<1>14. OnTheWay'
  BY <1>9, <1>13 DEF OnTheWay
<1> QED
  BY <1>11, <1>12, <1>14 DEF CleanInv

\* The module puts up the header of the frame the host is to read next.
LEMMA ModulePutsHeaderClean ==
  ASSUME Inv, SafeInv, CleanInv, ModulePutsHeader
  PROVE  CleanInv'
<1>1. PICK u : u = HdrUnit(LinkSize(ReplyFrame))
  OBVIOUS
<1>2. /\ mJob.phase = "hdr"
      /\ mTx' = Append(mTx, u)
      /\ mJob' = [mJob EXCEPT !.phase = "body"]
      /\ UNCHANGED <<host, mRx, mCmd, rsp>>
  BY <1>1 DEF ModulePutsHeader
<1>3. u \in Units /\ u = HdrUnit(LinkSize(Part(Had + 1)))
  <2>1. LinkSize(ReplyFrame) \in Nat
    BY <1>2, ReplyFrameType
  <2>2. ReplyFrame = Part(Had + 1)
    BY <1>2, ReplyDue
  <2> QED
    BY <1>1, <2>1, <2>2 DEF HdrUnit, Units
<1>4. /\ Len(mTx) \in Nat /\ Len(mTx') = Len(mTx) + 1
      /\ \A i \in 1..Len(mTx) : mTx'[i] = mTx[i]
      /\ mTx'[Len(mTx) + 1] = u
  BY <1>2, <1>3, AppendTo, Ranges
<1>5. mJob'.phase = "body" /\ mJob'.nr = mJob.nr
  BY <1>2 DEF Inv, TypeOK, ModuleTypes, Jobs
<1>6. /\ Had < Count /\ (HeaderDue \/ BodyDue) /\ pc \in {"ack", "hdr", "body"}
      /\ pc = "ack" => Len(mTx) > 0 /\ seq_nr = seq_len
      /\ mJob.nr = Had + 1
  BY <1>2, ReplyDue
<1>7. pc # "body" /\ Len(mTx) = Before /\ Len(mRx) = 0
  BY <1>2, <1>6 DEF HeaderDue, BodyDue
<1>8. /\ UNCHANGED <<pc, result, com_result, seq_nr, seq_len, txrx, call>>
      /\ Had' = Had /\ Count' = Count /\ Before' = Before
      /\ Part(Had + 1)' = Part(Had + 1)
  BY <1>2 DEF Had, Count, Size, Before, Part, host
<1>9. /\ Len(mTx') = Before' + 1 /\ mRx' = mRx
      /\ mTx'[Before' + 1] = HdrUnit(LinkSize(Part(Had + 1)))
  BY <1>2, <1>3, <1>4, <1>7, <1>8
<1>10. BodyDue'
  BY <1>5, <1>6, <1>7, <1>8, <1>9 DEF BodyDue, Part
<1>11. OnTheWay'
  BY <1>6, <1>7, <1>8, <1>10 DEF OnTheWay
<1>12. InTurn'
  <2>1. ASSUME pc = "ack" PROVE Len(mTx') > 0 /\ mTx'[1] = AckUnit /\ mCmd.nr = seq_nr
    BY <2>1, <1>4, <1>6, <1>7 DEF CleanInv, InTurn
  <2> QED
    BY <2>1, <1>2, <1>6, <1>8 DEF InTurn
<1> QED
  BY <1>8, <1>11, <1>12 DEF CleanInv, NoFailure

\* The module puts up the body behind its header.
LEMMA ModulePutsBodyClean ==
  ASSUME Inv, SafeInv, CleanInv, ModulePutsBody
  PROVE  CleanInv'
<1>1. PICK u : u = BodyUnit(ReplyFrame)
  OBVIOUS
<1>2. /\ mJob.phase = "body"
      /\ mTx' = Append(mTx, u)
      /\ mJob' = [mJob EXCEPT !.phase = "await"]
      /\ UNCHANGED <<host, mRx, mCmd, rsp>>
  BY <1>1 DEF ModulePutsBody
<1>3. u \in Units /\ u = BodyUnit(Part(Had + 1))
  <2>1. ReplyFrame \in Frames
    BY <1>2, ReplyFrameType
  <2>2. ReplyFrame = Part(Had + 1)
    BY <1>2, ReplyDue
  <2> QED
    BY <1>1, <2>1, <2>2 DEF BodyUnit, Units
<1>4. /\ Len(mTx) \in Nat /\ Len(mTx') = Len(mTx) + 1
      /\ \A i \in 1..Len(mTx) : mTx'[i] = mTx[i]
      /\ mTx'[Len(mTx) + 1] = u
  BY <1>2, <1>3, AppendTo, Ranges
<1>5. mJob'.phase = "await" /\ mJob'.nr = mJob.nr
  BY <1>2 DEF Inv, TypeOK, ModuleTypes, Jobs
<1>6. /\ Had < Count /\ (HeaderDue \/ BodyDue) /\ pc \in {"ack", "hdr", "body"}
      /\ pc = "ack" => Len(mTx) > 0 /\ seq_nr = seq_len
      /\ mJob.nr = Had + 1
  BY <1>2, ReplyDue
<1>7. BodyDue
  BY <1>2, <1>6 DEF HeaderDue
<1>8. /\ UNCHANGED <<pc, result, com_result, seq_nr, seq_len, txrx, call>>
      /\ Had' = Had /\ Count' = Count /\ Before' = Before
      /\ Part(Had + 1)' = Part(Had + 1)
      /\ Before \in {0, 1}
  BY <1>2 DEF Had, Count, Size, Before, Part, host
<1>9. Len(mRx) = 0 /\ mRx' = mRx
  BY <1>2, <1>7 DEF BodyDue
<1>10. FrameDue'
  <2>1. CASE pc = "body"
    <3>1. Len(mTx') = 1 /\ mTx'[1] = BodyUnit(Part(Had + 1))
      BY <2>1, <1>3, <1>4, <1>7 DEF BodyDue
    <3> QED
      BY <2>1, <3>1, <1>5, <1>6, <1>8, <1>9 DEF FrameDue, Part
  <2>2. CASE pc # "body"
    <3>1. /\ Len(mTx) = Before + 1
          /\ mTx[Before + 1] = HdrUnit(LinkSize(Part(Had + 1)))
      BY <2>2, <1>7 DEF BodyDue
    <3>2. /\ Len(mTx') = Before' + 2
          /\ mTx'[Before' + 1] = HdrUnit(LinkSize(Part(Had + 1)))
          /\ mTx'[Before' + 2] = BodyUnit(Part(Had + 1))
      BY <3>1, <1>3, <1>4, <1>8
    <3> QED
      BY <2>2, <3>2, <1>5, <1>6, <1>8, <1>9 DEF FrameDue, Part
  <2> QED
    BY <2>1, <2>2
<1>11. OnTheWay'
  <2>1. pc = "body" => txrx.lnk_size = LinkSize(Part(Had + 1))
    BY DEF CleanInv, OnTheWay
  <2> QED
    BY <2>1, <1>6, <1>8, <1>10 DEF OnTheWay, Part
<1>12. InTurn'
  <2>1. ASSUME pc = "ack" PROVE Len(mTx') > 0 /\ mTx'[1] = AckUnit /\ mCmd.nr = seq_nr
    BY <2>1, <1>4, <1>6, <1>9 DEF CleanInv, InTurn
  <2> QED
    BY <2>1, <1>2, <1>6, <1>8 DEF InTurn
<1> QED
  BY <1>8, <1>11, <1>12 DEF CleanInv, NoFailure

\* The ACK of a frame brings the module to the next; those of calls before are
\* out of its way when it comes to the frame in flight.
LEMMA ModuleTakesAckClean ==
  ASSUME Inv, SafeInv, CleanInv, ModuleTakesAck
  PROVE  CleanInv'
<1>1. /\ mRx # <<>> /\ Head(mRx).kind = "ack" /\ mRx' = Tail(mRx)
      /\ UNCHANGED <<host, mTx, mCmd, rsp>>
  BY DEF ModuleTakesAck
<1>2. /\ Len(mRx) \in Nat /\ Len(mRx) >= 1 /\ Head(mRx) = mRx[1]
      /\ Len(mRx') = Len(mRx) - 1
      /\ \A i \in 1..(Len(mRx) - 1) : mRx'[i] = mRx[i + 1]
  BY <1>1, TailOf, Ranges
<1>3. UNCHANGED <<pc, result, com_result, seq_nr, seq_len, txrx, call, p, mTx, rsp>>
  BY <1>1 DEF host
<1>4. NoFailure'
  BY <1>3 DEF CleanInv, NoFailure
<1>5. CASE pc \in {"idle", "tx"}
  <2>1. InTurn'
    BY <1>1, <1>3, <1>5 DEF CleanInv, InTurn
  <2>2. OnTheWay'
    BY <1>3, <1>5 DEF OnTheWay
  <2> QED
    BY <1>4, <2>1, <2>2 DEF CleanInv
<1>6. CASE pc = "ack"
  <2>1. /\ Len(mTx) = 0
        /\ mRx[Len(mRx)].kind = "frame"
        /\ seq_nr > 1 => mCmd.nr + 1 = seq_nr
    <3>1. ~(Len(mTx) > 0 /\ mTx[1] = AckUnit)
      <4> SUFFICES ASSUME Len(mTx) > 0, mTx[1] = AckUnit PROVE FALSE
        OBVIOUS
      <4>1. 1 \in 1..Len(mTx) /\ mTx[1].kind = "ack"
        BY Ranges DEF AckUnit
      <4>2. Len(mRx) = 0
        BY <4>1, <1>6 DEF SafeInv, Acked
      <4> QED
        BY <4>2, <1>2
    <3> QED
      BY <3>1, <1>6 DEF CleanInv, InTurn
  <2>2. Len(mRx) # 1
    BY <1>1, <1>2, <2>1
  <2>3. Len(mRx') > 0 /\ mRx'[Len(mRx')] = mRx[Len(mRx)]
    BY <1>2, <2>2
  <2>4. mRx'[Len(mRx')].kind = "frame"
    BY <2>1, <2>3
  <2>5. mCmd' = mCmd
    BY <1>1
  <2>6. InTurn'
    BY <1>3, <1>6, <2>1, <2>3, <2>4, <2>5 DEF InTurn
  <2>7. OnTheWay'
    BY <1>3, <1>6, <2>1 DEF OnTheWay
  <2> QED
    BY <1>4, <2>6, <2>7 DEF CleanInv
<1>7. CASE pc \in {"hdr", "body"}
  <2>1. Had < Count /\ HeaderDue /\ pc = "hdr" /\ mJob.phase = "await"
    BY <1>2, <1>7 DEF CleanInv, OnTheWay, HeaderDue, BodyDue, FrameDue,
                      ModuleTakesAck, Listening
  <2>2. mJob.nr = Had /\ Len(mRx) = 1 /\ Len(mTx) = 0
    BY <2>1 DEF HeaderDue, Before
  <2>3. Executed /\ Job
    BY <1>7 DEF SafeInv, Reply, Replying
  <2>4. mJob.call = call
    BY <2>1, <2>3 DEF Job
  <2>5. ReplyFrame.t_seq_nr = Had /\ ReplyFrame.t_seq_len = Count
    BY <2>2, <2>4 DEF ReplyFrame, Frame, Count, Size
  <2>6. ~(ReplyFrame.t_seq_nr = ReplyFrame.t_seq_len)
    <3>1. Count \in Nat /\ Had \in Nat
      BY <1>7, <2>3, ReplySize, Ranges DEF Had
    <3> QED
      BY <3>1, <2>1, <2>5
  <2>7. mJob' = [mJob EXCEPT !.phase = "hdr", !.nr = mJob.nr + 1,
                             !.sent = mJob.sent + ReplyFrame.t_size]
    BY <2>1, <2>6 DEF ModuleTakesAck
  <2>8. mJob'.phase = "hdr" /\ mJob'.nr = Had + 1
    BY <2>1, <2>2, <2>7 DEF Inv, TypeOK, ModuleTypes, Jobs
  <2>9. Had' = Had /\ Count' = Count /\ Before' = 0 /\ Len(mRx') = 0
    BY <1>2, <1>3, <2>1, <2>2 DEF Had, Count, Size, Before
  <2>10. HeaderDue'
    BY <1>3, <2>1, <2>2, <2>8, <2>9 DEF HeaderDue
  <2>11. OnTheWay'
    BY <1>3, <2>1, <2>9, <2>10 DEF OnTheWay
  <2>12. InTurn'
    BY <1>3, <1>7 DEF InTurn
  <2> QED
    BY <1>4, <2>11, <2>12 DEF CleanInv
<1> QED
  BY <1>5, <1>6, <1>7 DEF Inv, TypeOK, HostTypes

\* At first there is no call.
LEMMA InitClean == Init => CleanInv
<1> SUFFICES ASSUME Init PROVE CleanInv
  OBVIOUS
<1>1. pc = "idle" /\ call = 0 /\ result = "NONE" /\ Len(mTx) = 0
  BY NoBytes DEF Init
<1> QED
  BY <1>1 DEF CleanInv, NoFailure, InTurn, OnTheWay

\* Every step keeps the exchange clean.
LEMMA NextClean ==
  ASSUME Prompt, Inv, SafeInv, CleanInv, [Next]_vars
  PROVE  CleanInv'
<1>1. CASE UNCHANGED vars
  <2>1. UNCHANGED <<host, mTx, mRx, mCmd, mJob, rsp>>
    BY <1>1 DEF vars, module
  <2>2. NoFailure' /\ InTurn'
    BY <2>1 DEF CleanInv, NoFailure, InTurn, host
  <2>3. OnTheWay'
    BY <2>1 DEF CleanInv, OnTheWay, HeaderDue, BodyDue, FrameDue, Before, Part, Had,
                Count, Size, host
  <2> QED
    BY <2>2, <2>3 DEF CleanInv
<1>2. CASE HostStep
  <2>1. ~HwReset
    BY DEF HwReset, Prompt, CleanInv, NoFailure
  <2> QED
    BY <1>2, <2>1, TranceiveClean, TxLinkWriteClean, TxLinkAckClean, NoAckTimeout,
       RxLinkHeaderClean, NoHeaderTimeout, RxLinkBodyClean, NoBodyTimeout
    DEF HostStep, HostWaits, RxLinkHeaderTimeout, ButtonEndsWait, TimesOut
<1>3. CASE ModuleStep
  BY <1>3, ModuleTakesFrameClean, ModuleTakesAckClean, ModulePutsHeaderClean,
     ModulePutsBodyClean DEF ModuleStep
<1>4. ~BusFault
  BY DEF BusFault, CorruptWrite, CorruptRead, SpuriousIrq, ModuleRestart, Fault,
         Prompt
<1> QED
  BY <1>1, <1>2, <1>3, <1>4 DEF Next, Finished

\* With a prompt module and a quiet bus all three invariants hold in every
\* reachable state: no call fails, so no call begins after a failure.
LEMMA AlwaysClean == ASSUME Prompt PROVE Spec => [](Inv /\ SafeInv /\ CleanInv)
<1>1. "body" \notin Late
  BY DEF Prompt
<1>2. CleanInv => ~Failing
  BY DEF CleanInv, NoFailure, Failing
<1>3. Inv /\ SafeInv /\ CleanInv /\ [Next]_vars => (Inv /\ SafeInv /\ CleanInv)'
  BY <1>1, <1>2, NextInv, NextSafe, NextClean
<1> QED
  BY <1>3, InitInv, InitSafe, InitClean, PTL DEF Spec

\* With a prompt module and a quiet bus every call succeeds, or reports
\* NO_MEMORY for a reply for which there is no room, for every MTU, size of
\* pkt_buffer and size of command and reply.
THEOREM CleanExchanges == ASSUME Prompt PROVE Spec => []CleanExchangeSucceeds
<1>1. Inv /\ SafeInv /\ CleanInv => CleanExchangeSucceeds
  <2> SUFFICES ASSUME Inv, SafeInv, CleanInv, pc = "idle", call > 0
               PROVE  \/ result = "OK" /\ rsp[call].size <= PKT_SIZE_MAX
                      \/ result = "NO_MEMORY" /\ rsp[call].size >= PKT_SIZE_MAX
    BY DEF CleanExchangeSucceeds
  <2>1. result \in {"OK", "NO_MEMORY"}
    BY DEF CleanInv, NoFailure
  <2>2. ASSUME result = "OK" PROVE rsp[call].size <= PKT_SIZE_MAX
    <3>1. ReplyIsOurs
      BY <2>2 DEF SafeInv, Done
    <3>2. pkt_size = rsp[call].size
      BY <2>2, <3>1 DEF ReplyIsOurs
    <3>3. pkt_size <= PKT_SIZE_MAX
      BY SizeFacts DEF Inv, TypeOK, HostTypes
    <3> QED
      BY <3>2, <3>3
  <2>3. ASSUME result = "NO_MEMORY" PROVE rsp[call].size >= PKT_SIZE_MAX
    BY <2>3 DEF SafeInv, Done, Size
  <2> QED
    BY <2>1, <2>2, <2>3
<1> QED
  BY <1>1, AlwaysClean, PTL

\* With a prompt module and a quiet bus commands arrive intact and replies are
\* those of the running call though the caller never resets the module.
THEOREM CleanExchangesAreSound ==
  ASSUME Prompt PROVE Spec => [](CommandIntact /\ ReplyIsOurs)
<1>1. SafeInv => CommandIntact /\ ReplyIsOurs
  BY DEF SafeInv, Done, ReplyIsOurs
<1> QED
  BY <1>1, AlwaysClean, PTL
=============================================================================
