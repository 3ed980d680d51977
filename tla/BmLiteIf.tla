------------------------------- MODULE BmLiteIf -------------------------------
(***************************************************************************)
(* The command functions (BMLite_sdk/src/bmlite_if.c) over the packets of  *)
(* HcpPacket.  Every one of them builds a command, lets bmlite_tranceive   *)
(* exchange it for an answer and may take an argument from the answer;     *)
(* what tells them apart is a record below.  bep_enroll_finger,            *)
(* bep_identify_finger and bep_capture, made of several, are in BmLiteApp. *)
(*                                                                         *)
(* One action is one call of a packet function; every step of the packet   *)
(* is a step of HcpPacket.  What bmlite_send and bmlite_receive return is  *)
(* what HcpTransport shows.                                                *)
(***************************************************************************)
EXTENDS HcpPacket, SequencesExt

CONSTANTS
  Functions,   \* for each call in turn the functions it may be, records as below
  Payloads,    \* sizes of the data the module sends
  BreaksAt     \* where in a reply a frame can begin that is lost or not stored

VARIABLES
  pc,              \* "idle", "build", "exchange", "status", "take"
  fn,              \* the function that is running, or ran last
  adds,            \* arguments it has yet to add
  com,             \* what bmlite_send or bmlite_receive returned
  ret,             \* what the function returned, "NONE" while it is running
  bep_result,      \* chain->bep_result; 0 is OK
  phy_rx_timeout,
  out,             \* what it has handed to its caller
  calls,           \* number of calls so far, at most Len(Functions)
  sent,            \* history: the commands the module got for it
  answer           \* history: the arguments of the module's answer

ifVars == <<pc, fn, adds, com, ret, bep_result, phy_rx_timeout, out,
            calls, sent, answer>>

PHY_RX_TIMEOUT == 2000

-----------------------------------------------------------------------------
(* Commands and keys (fpc_hcp_common.h) *)

Cmd == [ENROLL |-> 2, IDENTIFY |-> 3, IMAGE |-> 5, TEMPLATE |-> 6, WAIT |-> 7,
        SENSOR |-> 4098, RESET |-> 12290, INFO |-> 12292,
        STORAGE_TEMPLATE |-> 16386, STORAGE_CALIBRATION |-> 16387,
        COMMUNICATION |-> 24577]

Arg == [NONE |-> 0, FINGER_DOWN |-> 1, ADD |-> 4, ID |-> 6, ALL |-> 7,
        EXTRACT |-> 8, SET |-> 4099, GET |-> 4100, UPLOAD |-> 4101,
        DOWNLOAD |-> 4102, CREATE |-> 4103, SAVE |-> 4104, DELETE |-> 4105,
        DATA |-> 4106, RESULT |-> 8193, COUNT |-> 8194, SIZE |-> 8195,
        SPEED |-> 8200, RESET |-> 12292, TIMEOUT |-> 20481,
        VERSION |-> 24579, UNIQUE_ID |-> 24580]

-----------------------------------------------------------------------------
(* The functions.  One says what it sends (cmd, key, adds), how it takes an    *)
(* argument key2 from the answer ("none", "find", "value", "copy" or           *)
(* "unchecked") into room bytes, and for how long it waits, if it sets that.   *)

NoWait == 65536
NULL   == -1      \* for room

\* bmlite_send_cmd, bmlite_send_cmd_arg with size bytes of data.
SendCmd(cmd, key) ==
  [cmd |-> cmd, key |-> key, adds |-> <<>>, take |-> "none", key2 |-> Arg.NONE,
   room |-> 0, wait |-> NoWait]

With(f, key, size) == [f EXCEPT !.adds = Append(@, [key |-> key, size |-> size])]

Take(f, how, key, room) == [f EXCEPT !.take = how, !.key2 = key, !.room = room]

sensor_wait_finger_present(timeout) ==
  [With(SendCmd(Cmd.WAIT, Arg.FINGER_DOWN), Arg.TIMEOUT, 2) EXCEPT !.wait = timeout]

\* In bep_enroll_finger.
enroll_add == Take(SendCmd(Cmd.ENROLL, Arg.ADD), "unchecked", Arg.COUNT, 4)

bep_image_get_size == Take(SendCmd(Cmd.IMAGE, Arg.SIZE), "value", Arg.SIZE, 4)
image_create == SendCmd(Cmd.IMAGE, Arg.CREATE)
image_delete == SendCmd(Cmd.IMAGE, Arg.DELETE)
bep_image_get(size) == Take(SendCmd(Cmd.IMAGE, Arg.UPLOAD), "copy", Arg.DATA, size)
bep_image_put(size) == With(SendCmd(Cmd.IMAGE, Arg.DOWNLOAD), Arg.DATA, size)
bep_image_extract == SendCmd(Cmd.IMAGE, Arg.EXTRACT)
bep_identify == SendCmd(Cmd.IDENTIFY, Arg.NONE)
bep_template_save == With(SendCmd(Cmd.TEMPLATE, Arg.SAVE), Arg.ID, 2)
bep_template_remove_ram == SendCmd(Cmd.TEMPLATE, Arg.DELETE)
bep_template_get(size) ==
  Take(SendCmd(Cmd.TEMPLATE, Arg.UPLOAD), "copy", Arg.DATA, size)
bep_template_put(size) == With(SendCmd(Cmd.TEMPLATE, Arg.DOWNLOAD), Arg.DATA, size)
bep_template_remove == With(SendCmd(Cmd.STORAGE_TEMPLATE, Arg.DELETE), Arg.ID, 2)
bep_template_remove_all == With(SendCmd(Cmd.STORAGE_TEMPLATE, Arg.DELETE), Arg.ALL, 0)
bep_template_load_storage ==
  With(SendCmd(Cmd.STORAGE_TEMPLATE, Arg.UPLOAD), Arg.ID, 2)
bep_template_get_count ==
  Take(SendCmd(Cmd.STORAGE_TEMPLATE, Arg.COUNT), "value", Arg.COUNT, 2)
bep_template_get_ids ==
  Take(SendCmd(Cmd.STORAGE_TEMPLATE, Arg.ID), "find", Arg.DATA, 0)
bep_sw_reset == SendCmd(Cmd.RESET, Arg.NONE)
bep_sensor_calibrate == SendCmd(Cmd.STORAGE_CALIBRATION, Arg.NONE)
bep_sensor_calibrate_remove == SendCmd(Cmd.STORAGE_CALIBRATION, Arg.DELETE)
bep_version(len) ==
  Take(With(SendCmd(Cmd.INFO, Arg.GET), Arg.VERSION, 0), "copy", Arg.VERSION, len)
bep_unique_id_get ==
  Take(With(SendCmd(Cmd.INFO, Arg.GET), Arg.UNIQUE_ID, 0), "copy", Arg.UNIQUE_ID, 12)
bep_uart_speed_set ==
  With(With(SendCmd(Cmd.COMMUNICATION, Arg.SPEED), Arg.SET, 0), Arg.DATA, 4)
bep_uart_speed_get ==
  Take(With(SendCmd(Cmd.COMMUNICATION, Arg.SPEED), Arg.GET, 0), "copy", Arg.DATA, 4)
bep_sensor_reset == SendCmd(Cmd.SENSOR, Arg.RESET)

\* What all of them have in common: the fields are uint16_t, the data an argument takes
\* fits one, a number has two or four bytes, and none asks for the status of the
\* answer or for an identity.
IsFunction(f) ==
  /\ f \in [cmd  : 0..(WORD - 1), key : 0..(WORD - 1),
            adds : Seq([key : 1..(WORD - 1), size : 0..(WORD - 1)]),
            take : {"none", "find", "value", "copy", "unchecked"},
            key2 : 0..(WORD - 1), room : Nat \cup {NULL}, wait : Nat]
  /\ f.take # "none" => f.key2 \notin {Arg.NONE, Arg.ID, Arg.RESULT}
  /\ f.take = "value" => f.room \in {2, 4}
  /\ f.take = "unchecked" => f.room = 4

\* The uint16_t of the packet are bytes of 8 bits, and a packet is no longer than one.
ASSUME IfAssumption ==
  /\ BYTE = 256 /\ PKT_SIZE_MAX < WORD
  /\ Len(Functions) \in Nat
  /\ \A n \in 1..Len(Functions) : \A f \in Functions[n] : IsFunction(f)
  /\ Payloads \subseteq 0..(WORD - 1)
  /\ BreaksAt \subseteq Nat

-----------------------------------------------------------------------------
(* Decisions of the code, with mistaken variants as in HcpPacket *)

\* assert: a step that failed ends the function.
GivesUpNever(r) == FALSE
GivesUp(r) == r # "OK"

\* bep_result once bmlite_get_arg has returned r for ARG_RESULT.
StatusIfAny(r) == IF r = "OK" THEN pkt_buffer[arg'.data] ELSE bep_result
Status(r) == IF r = "OK" THEN pkt_buffer[arg'.data] ELSE 0

\* How many bytes bmlite_copy_arg copies; room is cut to a uint16_t.
CopySizeOfArg(room, size) == size
CopySize(room, size) == IF room % WORD < size THEN room % WORD ELSE size

\* prev_timeout, which is what main set, is put back however the function ends.
TimeoutIfOk(r) == IF r = "OK" THEN PHY_RX_TIMEOUT ELSE phy_rx_timeout
TimeoutAfter(r) == PHY_RX_TIMEOUT

-----------------------------------------------------------------------------
(* The module, as far as the functions expect it *)

Arguments(key, sizes) ==
  {[key |-> key, data |-> [n \in 1..size |-> (100 + n) % BYTE]] : size \in sizes}

Ok     == [key |-> Arg.RESULT, data |-> <<0>>]
Failed == [key |-> Arg.RESULT, data |-> <<241>>]
Other  == [key |-> Arg.ID, data |-> <<0, 0, 0, 0>>]
Long   == [key |-> Arg.ID, data |-> [n \in 1..(PKT_SIZE_MAX - 8) |-> 0]]

\* The argument f asks for.  A number has the size it is read with.
Taken(f) ==
  CASE f.take = "none" -> {}
    [] f.take = "value" -> Arguments(f.key2, {f.room})
    [] f.take = "unchecked" -> {[key |-> f.key2, data |-> <<n, 0, 0, 0>>] : n \in {0, 3}}
    [] OTHER -> Arguments(f.key2, Payloads)

\* Answers to f: they may have a status and the argument asked for, or neither, in
\* any order and twice, and others, one too long for the buffer.
Answers(f) ==
  {<<>>, <<Ok>>, <<Failed>>, <<Failed, Other>>, <<Long, Failed>>}
  \cup (UNION {{<<Ok, v>>, <<v>>, <<Other, v>>, <<v, Ok>>} : v \in Taken(f)})
  \cup {<<v, w>> : v, w \in Taken(f)}

\* The bytes of an answer.
EncodedArg(a) == Field(a.key) \o Field(Len(a.data)) \o a.data
Encoded(cmd, as) ==
  Field(cmd) \o Field(Len(as)) \o FlattenSeq([j \in 1..Len(as) |-> EncodedArg(as[j])])

\* Where its arguments are.
Placed(as) ==
  LET at[j \in 1..Len(as)] ==
        IF j = 1 THEN 4 ELSE at[j - 1] + 4 + Len(as[j - 1].data)
  IN  [j \in 1..Len(as) |-> Argument(as[j].key, at[j], as[j].data)]

\* The command the module reads from the pkt_size bytes it is sent.
Received ==
  LET nr == Word(pkt_buffer, 2)
      at[j \in 1..(nr + 1)] ==
        IF j = 1 THEN 4 ELSE at[j - 1] + 4 + Word(pkt_buffer, at[j - 1] + 2)
  IN  [cmd  |-> Word(pkt_buffer, 0),
       args |-> [j \in 1..nr |->
                   [key  |-> Word(pkt_buffer, at[j]),
                    data |-> Bytes(at[j] + 4, Word(pkt_buffer, at[j] + 2))]],
       size |-> at[nr + 1]]

-----------------------------------------------------------------------------
(* The running function *)

\* The first bytes of the caller's data, which are 1, 2 and so on.
Data(size) == [n \in 1..(size % WORD) |-> n % BYTE]

Return(r) ==
  /\ pc' = "idle"
  /\ ret' = r
  /\ adds' = <<>>
  /\ com' = "NONE"
  /\ phy_rx_timeout' = TimeoutAfter(r)

KeepRunning == UNCHANGED <<ret, phy_rx_timeout>>

Call(f) ==
  /\ pc = "idle"
  /\ calls' = calls + 1
  /\ InitCmd(f.cmd, f.key)
  /\ fn' = f
  /\ adds' = f.adds
  /\ pc' = IF f.adds = <<>> THEN "exchange" ELSE "build"
  /\ phy_rx_timeout' = IF f.wait = NoWait THEN phy_rx_timeout ELSE f.wait
  /\ ret' = "NONE"
  /\ out' = <<>>
  /\ sent' = <<>>
  /\ answer' = <<>>
  /\ UNCHANGED <<com, bep_result>>

Build ==
  /\ pc = "build"
  /\ AddArg(Head(adds).key, Data(Head(adds).size))
  /\ \/ /\ GivesUp(result')
        /\ Return(result')
     \/ /\ ~GivesUp(result')
        /\ adds' = Tail(adds)
        /\ pc' = IF adds' = <<>> THEN "exchange" ELSE "build"
        /\ KeepRunning
        /\ UNCHANGED com
  /\ UNCHANGED <<fn, calls, bep_result, out, sent, answer>>

\* bmlite_send fails, whether the module got the command or not.
SendFails(error, arrived) ==
  /\ pc = "exchange"
  /\ sent' = IF arrived THEN Append(sent, Received) ELSE sent
  /\ Return(error)
  /\ UNCHANGED <<pkVars, fn, calls, bep_result, out, answer>>

ReceiveWhole(as) ==
  LET bytes == Encoded(fn.cmd, as)
  IN  /\ pc = "exchange"
      /\ Len(bytes) < PKT_SIZE_MAX
      /\ ReplyArrives(Store(pkt_buffer, 0, bytes), Len(bytes), Placed(as))
      /\ sent' = Append(sent, Received)
      /\ answer' = as
      /\ com' = "OK"
      /\ pc' = "status"
      /\ KeepRunning
      /\ UNCHANGED <<fn, calls, adds, bep_result, out>>

\* The bytes up to n are in the buffer, and behind them those from m on of frames that
\* came after one that was not stored; pkt_size is theirs if bmlite_receive went on
\* to the last frame, as it does on NO_MEMORY.  TIMEOUT is like IO_ERROR.
ReceiveFails(error, as, n, m) ==
  LET bytes == Encoded(fn.cmd, as)
      kept  == SubSeq(bytes, 1, n) \o SubSeq(bytes, m + 1, Len(bytes))
  IN  /\ pc = "exchange"
      /\ n <= m /\ m <= Len(bytes)
      /\ Len(kept) < PKT_SIZE_MAX
      /\ \E size \in {Len(kept)} \cup (IF error = "NO_MEMORY" THEN {} ELSE {pkt_size}) :
           ReplyBreaks(Store(pkt_buffer, 0, kept), size)
      /\ sent' = Append(sent, Received)
      /\ com' = error
      /\ pc' = "status"
      /\ KeepRunning
      /\ UNCHANGED <<fn, calls, adds, bep_result, out, answer>>

\* The end of bmlite_tranceive looks for a status, also after an error.
LookForStatus ==
  /\ pc = "status"
  /\ NotWalking
  /\ GetArg(Arg.RESULT)
  /\ UNCHANGED ifVars

StatusFound ==
  /\ pc = "status"
  /\ WalkTurn
  /\ arg_type' = 0
  /\ bep_result' = Status(result')
  /\ \/ /\ GivesUp(com) \/ fn.take = "none"
        /\ Return(com)
     \/ /\ ~GivesUp(com)
        /\ fn.take # "none"
        /\ pc' = "take"
        /\ KeepRunning
        /\ UNCHANGED <<adds, com>>
  /\ UNCHANGED <<fn, calls, out, sent, answer>>

LookForArg ==
  /\ pc = "take"
  /\ NotWalking
  /\ GetArg(fn.key2)
  /\ UNCHANGED ifVars

\* What is at address 0: the vector table, or what a bootloader has put there.
AtNull == {<<0, 0, 0, 0>>, <<0, 0, 4, 32>>}

\* What bep_enroll_finger may read for a count when nothing was found: arg.data points
\* at what an earlier search has found, or is still NULL.
LeftAtArg == IF arg'.data = 0 THEN AtNull ELSE {Bytes(arg'.data, fn.room)}

\* bmlite_get_arg has found the argument or not.  A number is read from arg.data,
\* by bep_enroll_finger even if nothing was found.
ArgFound ==
  /\ pc = "take"
  /\ WalkTurn
  /\ arg_type' = 0
  /\ \/ /\ fn.take # "unchecked"
        /\ GivesUp(result')
        /\ Return(result')
        /\ UNCHANGED out
     \/ /\ ~GivesUp(result')
        /\ fn.room = NULL
        /\ Return("NO_MEMORY")
        /\ UNCHANGED out
     \/ /\ ~GivesUp(result')
        /\ fn.room # NULL
        /\ out' = CASE fn.take = "find" -> <<>>
                    [] fn.take = "copy" ->
                         Bytes(arg'.data, CopySize(fn.room, arg'.size))
                    [] OTHER -> Bytes(arg'.data, fn.room)
        /\ Return("OK")
     \/ /\ fn.take = "unchecked"
        /\ GivesUp(result')
        /\ out' \in LeftAtArg
        /\ Return("OK")
  /\ UNCHANGED <<fn, calls, bep_result, sent, answer>>

\* Any other turn of the walk.
Walk ==
  /\ pc \in {"status", "take"}
  /\ WalkTurn
  /\ arg_type' # 0
  /\ UNCHANGED ifVars

-----------------------------------------------------------------------------

IfInit ==
  /\ pkt_buffer = [o \in Offsets |-> 0]
  /\ PkInit
  /\ pc = "idle"
  /\ fn = bep_identify
  /\ adds = <<>>
  /\ com = "NONE"
  /\ ret = "NONE"
  /\ bep_result = 0
  /\ phy_rx_timeout = PHY_RX_TIMEOUT
  /\ out = <<>>
  /\ calls = 0
  /\ sent = <<>>
  /\ answer = <<>>

IfNext ==
  \/ calls < Len(Functions) /\ \E f \in Functions[calls + 1] : Call(f)
  \/ Build
  \/ \E arrived \in BOOLEAN : SendFails("IO_ERROR", arrived)
  \/ \E as \in Answers(fn) :
        \/ ReceiveWhole(as)
        \/ \E error \in {"IO_ERROR", "NO_MEMORY"}, n \in BreaksAt,
              m \in BreaksAt \cup {Len(Encoded(fn.cmd, as))} :
              ReceiveFails(error, as, n, m)
  \/ LookForStatus \/ StatusFound
  \/ LookForArg \/ ArgFound
  \/ Walk
  \/ pc = "idle" /\ calls = Len(Functions) /\ UNCHANGED <<pkVars, ifVars>>

IfSpec == IfInit /\ [][IfNext]_<<pkVars, ifVars>>

-----------------------------------------------------------------------------
(* Properties *)

\* The types of the variables that the functions add to the packet; phy_rx_timeout is
\* as main set it but while a wait for a finger runs, however that ends.
IfTypeOK ==
  /\ pc \in {"idle", "build", "exchange", "status", "take"}
  /\ com \in {"NONE", "OK", "IO_ERROR", "NO_MEMORY"}
  /\ ret \in {"NONE", "OK", "IO_ERROR", "NO_MEMORY", "INVALID_ARGUMENT"}
  /\ bep_result \in Byte
  /\ phy_rx_timeout = IF pc # "idle" /\ fn.wait # NoWait THEN fn.wait
                                                         ELSE PHY_RX_TIMEOUT

\* The arguments f stands for.
Asked(f) ==
  (IF f.key = Arg.NONE THEN <<>> ELSE <<[key |-> f.key, data |-> <<>>]>>)
  \o [j \in 1..Len(f.adds) |->
        [key  |-> f.adds[j].key,
         data |-> [n \in 1..f.adds[j].size |-> n % BYTE]]]

\* The module gets, once for each call and not at all if it does not fit, the command
\* the function stands for, with all of its arguments and their data, whatever was in
\* the buffer before (bmlite_if.c 313-325 and its callers).
SentAsAsked ==
  /\ ret = "OK" => Len(sent) = 1
  /\ Len(sent) <= 1
  /\ \A n \in 1..Len(sent) :
       /\ sent[n].cmd = fn.cmd
       /\ sent[n].args = Asked(fn)
       /\ sent[n].size = pkt_size \/ holds # "command"

\* Index of the first argument of the answer with the key, 0 if there is none.
FirstIn(key) ==
  LET with == {j \in 1..Len(answer) : answer[j].key = key}
  IN  IF with = {} THEN 0 ELSE CHOOSE j \in with : \A k \in with : j <= k

\* A function that returns OK leaves in bep_result the status of the answer to its
\* own command, or OK if that has none, and hands out the data of the argument in that
\* answer: all of it, or else exactly as many bytes as the size of the caller's area says
\* once it is a uint16_t.  (So an area of 65537 bytes gets one byte and OK, though
\* bmlite_if.h 115-118 speaks of truncation only if the buffer is too small.)  It never
\* returns OK without such an argument, except where bep_enroll_finger does not ask
\* (hcp_tiny.c 120-155, bmlite_if.c 188, 224).
AnswerHonest ==
  ret = "OK" =>
    LET status == FirstIn(Arg.RESULT)
        taken  == FirstIn(fn.key2)
    IN  /\ bep_result = IF status = 0 THEN 0 ELSE answer[status].data[1]
        /\ fn.take \notin {"none", "unchecked"} => taken # 0
        /\ fn.take = "find" => Bytes(arg.data, arg.size) = answer[taken].data
        /\ fn.take \in {"copy", "value", "unchecked"} /\ taken # 0 =>
             /\ IsPrefix(out, answer[taken].data)
             /\ Len(out) = Len(answer[taken].data) \/ Len(out) = fn.room % WORD

\* bmlite_copy_arg does not write past the end of the caller's area, also not of one
\* larger than a uint16_t can say (bmlite_if.c 188, 224).
CopyFits == fn.take = "copy" /\ fn.room # NULL => Len(out) <= fn.room

\* bep_enroll_finger does not look whether an answer to ENROLL ADD has a count
\* (bmlite_if.c 78-86).  From one that has none but a status, what it reads begins with
\* that very status, whatever lies around it: after a failure it is never the 0 that
\* completes the enrolment.  (After OK it may be, and of an answer with neither it
\* reads what an earlier one has left.)
StatusReadAsCount ==
  ret = "OK" /\ fn = enroll_add /\ FirstIn(Arg.COUNT) = 0 /\ FirstIn(Arg.RESULT) # 0 =>
    out[1] = bep_result

=============================================================================
