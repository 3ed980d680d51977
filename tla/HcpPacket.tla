------------------------------- MODULE HcpPacket -------------------------------
(***************************************************************************)
(* Commands and answers of HCP as bytes of pkt_buffer (BMLite_sdk/src/     *)
(* hcp_tiny.c): bmlite_init_cmd and bmlite_add_arg build a command,        *)
(* bmlite_get_arg walks over the arguments of the answer that has taken    *)
(* its place.  A packet is a 16-bit command, a 16-bit number of arguments  *)
(* and the arguments, each a 16-bit key, a 16-bit size and as many bytes.  *)
(*                                                                         *)
(* ReplyArrives and ReplyBreaks stand for bmlite_tranceive up to its call  *)
(* of bmlite_get_arg; BmLiteIf says which bytes come and who calls what.   *)
(***************************************************************************)
EXTENDS Integers, Sequences

CONSTANTS
  BYTE,          \* number of values of a byte; 256
  PKT_SIZE_MAX   \* bytes in pkt_buffer; 5120

WORD == BYTE * BYTE   \* number of values of a uint16_t

\* The buffer is not so large that the number of arguments goes round.
ASSUME PacketAssumption ==
  /\ BYTE \in Nat /\ BYTE > 1
  /\ PKT_SIZE_MAX \in Nat /\ PKT_SIZE_MAX >= 8
  /\ PKT_SIZE_MAX < 4 * WORD

VARIABLES
  pkt_buffer,  \* with the memory behind it, as far as the code may read
  pkt_size,
  arg,         \* size and data of the last argument found, as an offset
  result,      \* what the last function returned; "NONE" while one is running
  \* locals of bmlite_get_arg
  arg_type,    \* 0 if it is not running
  i,
  args_nr,
  pdata,       \* an offset too
  \* history
  holds,       \* what the buffer holds: "nothing", "command", "reply" or
               \* "broken", after a reception that failed
  packet,      \* the arguments of the command or reply, and where they are
  got          \* the key of the last search and whether it was found; 0 while
               \* arg is not valid

walkVars == <<arg_type, i, args_nr, pdata>>
pkVars   == <<pkt_buffer, pkt_size, arg, result, walkVars, holds, packet, got>>

Byte    == 0..(BYTE - 1)
Offsets == 0..(PKT_SIZE_MAX + 7)
NoKey   == [key |-> 0, ok |-> FALSE]

-----------------------------------------------------------------------------
(* Bytes and fields *)

Word(buf, at) == buf[at] + BYTE * buf[at + 1]

Field(v) == <<v % BYTE, v \div BYTE>>

Store(buf, at, bytes) ==
  [o \in Offsets |->
     IF at <= o /\ o < at + Len(bytes) THEN bytes[o - at + 1] ELSE buf[o]]

\* An argument of packet and the offset behind it.
Argument(key, at, data) == [key |-> key, at |-> at, data |-> data]
End(a) == a.at + 4 + Len(a.data)

\* The buffer after an argument has been put at its end: the number of arguments,
\* the key, the size and the data.  (The first forgets the number.)
WithArgUncounted(buf, at, key, data) ==
  Store(Store(Store(buf, at, Field(key)), at + 2, Field(Len(data))), at + 4, data)

WithArg(buf, at, key, data) ==
  LET counted == Store(buf, 2, Field((Word(buf, 2) + 1) % WORD))
  IN  Store(Store(Store(counted, at, Field(key)), at + 2, Field(Len(data))),
            at + 4, data)

\* The buffer holds the arguments of list and nothing else, size bytes in all.
Encodes(buf, size, list) ==
  /\ Word(buf, 2) = Len(list)
  /\ size = IF list = <<>> THEN 4 ELSE End(list[Len(list)])
  /\ \A j \in 1..Len(list) :
       /\ list[j].at = IF j = 1 THEN 4 ELSE End(list[j - 1])
       /\ End(list[j]) <= size
       /\ Word(buf, list[j].at) = list[j].key
       /\ Word(buf, list[j].at + 2) = Len(list[j].data)
       /\ \A n \in 1..Len(list[j].data) : buf[list[j].at + 3 + n] = list[j].data[n]

-----------------------------------------------------------------------------
(* Decisions of the code, some with a mistaken variant, not used by the        *)
(* specification, that shows which property would notice.                      *)

\* There is no room for an argument of n bytes.
NoRoomForData(n) == pkt_size + n > PKT_SIZE_MAX
NoRoom(n) == pkt_size + 4 + n > PKT_SIZE_MAX

\* Where the next argument begins.
NextArgAfterData == pdata + Word(pkt_buffer, pdata + 2)
NextArg == pdata + 4 + Word(pkt_buffer, pdata + 2)

\* The loop of bmlite_get_arg goes on.
WalksPastCount == i <= args_nr /\ pdata <= pkt_size
Walks == i < args_nr /\ pdata <= pkt_size

NextIndex == i + 1

ArgHere == [size |-> Word(pkt_buffer, pdata + 2), data |-> pdata + 4]

\* What arg is once the walk goes past an argument with another key.
ArgPassedTaken == ArgHere
ArgPassed == arg

-----------------------------------------------------------------------------
(* bmlite_init_cmd, bmlite_add_arg *)

NotWalking == arg_type = 0

\* The command has to come first, then the keys; one without an argument has the
\* key 0, ARG_NONE.
InitCmd(cmd, key) ==
  LET empty == Store(Store(pkt_buffer, 0, Field(cmd)), 2, Field(0))
  IN  /\ NotWalking
      /\ \/ /\ key = 0
            /\ pkt_buffer' = empty
            /\ pkt_size' = 4
            /\ packet' = <<>>
         \/ /\ key # 0
            /\ pkt_buffer' = WithArg(empty, 4, key, <<>>)
            /\ pkt_size' = 8
            /\ packet' = <<Argument(key, 4, <<>>)>>
      /\ result' = "OK"
      /\ holds' = "command"
      /\ got' = NoKey
      /\ UNCHANGED <<arg, walkVars>>

AddArg(key, data) ==
  /\ NotWalking
  /\ holds = "command"
  /\ \/ /\ NoRoom(Len(data))
        /\ result' = "NO_MEMORY"
        /\ UNCHANGED <<pkt_buffer, pkt_size, packet, got>>
     \/ /\ ~NoRoom(Len(data))
        /\ pkt_buffer' = WithArg(pkt_buffer, pkt_size, key, data)
        /\ pkt_size' = pkt_size + 4 + Len(data)
        /\ packet' = Append(packet, Argument(key, pkt_size, data))
        /\ result' = "OK"
        /\ got' = NoKey
  /\ UNCHANGED <<arg, walkVars, holds>>

-----------------------------------------------------------------------------
(* bmlite_tranceive: what it leaves in pkt_buffer and pkt_size *)

ReplyArrives(buf, size, list) ==
  /\ NotWalking
  /\ holds = "command"
  /\ pkt_buffer' = buf
  /\ pkt_size' = size
  /\ packet' = list
  /\ holds' = "reply"
  /\ got' = NoKey
  /\ UNCHANGED <<arg, result, walkVars>>

\* Some of the reply lies over the command; pkt_size is the one or the other.
ReplyBreaks(buf, size) ==
  /\ NotWalking
  /\ holds = "command"
  /\ pkt_buffer' = buf
  /\ pkt_size' = size
  /\ packet' = <<>>
  /\ holds' = "broken"
  /\ got' = NoKey
  /\ UNCHANGED <<arg, result, walkVars>>

-----------------------------------------------------------------------------
(* bmlite_get_arg, one action for a turn of its loop *)

GetArg(key) ==
  /\ NotWalking
  /\ holds # "nothing"
  /\ key # 0
  /\ arg_type' = key
  /\ i' = 0
  /\ args_nr' = Word(pkt_buffer, 2)
  /\ pdata' = 4
  /\ result' = "NONE"
  /\ UNCHANGED <<pkt_buffer, pkt_size, arg, holds, packet, got>>

GetReturns(r) ==
  /\ result' = r
  /\ got' = IF holds = "broken" THEN NoKey ELSE [key |-> arg_type, ok |-> r = "OK"]
  /\ arg_type' = 0 /\ i' = 0 /\ args_nr' = 0 /\ pdata' = 0

WalkTurn ==
  /\ ~NotWalking
  /\ \/ /\ Walks
        /\ Word(pkt_buffer, pdata) = arg_type
        /\ arg' = ArgHere
        /\ GetReturns("OK")
     \/ /\ Walks
        /\ Word(pkt_buffer, pdata) # arg_type
        /\ i' = NextIndex
        /\ pdata' = NextArg
        /\ arg' = ArgPassed
        /\ UNCHANGED <<result, arg_type, args_nr, got>>
     \/ /\ ~Walks
        /\ GetReturns("INVALID_ARGUMENT")
        /\ UNCHANGED arg
  /\ UNCHANGED <<pkt_buffer, pkt_size, holds, packet>>

-----------------------------------------------------------------------------

PkInit ==
  /\ pkt_buffer \in [Offsets -> Byte]
  /\ pkt_size = 0
  /\ arg = [size |-> 0, data |-> 0]
  /\ result = "NONE"
  /\ arg_type = 0 /\ i = 0 /\ args_nr = 0 /\ pdata = 0
  /\ holds = "nothing"
  /\ packet = <<>>
  /\ got = NoKey

\* The callers, in any order the header allows, and the bus.
PkNext ==
  \/ \E cmd, key \in 0..(WORD - 1) : InitCmd(cmd, key)
  \/ \E key \in 1..(WORD - 1), data \in Seq(Byte) :
       Len(data) < WORD /\ AddArg(key, data)
  \/ \E buf \in [Offsets -> Byte], size \in 0..(PKT_SIZE_MAX - 1),
        list \in Seq([key : 0..(WORD - 1), at : Nat, data : Seq(Byte)]) :
       Encodes(buf, size, list) /\ ReplyArrives(buf, size, list)
  \/ \E buf \in [Offsets -> Byte], size \in 0..PKT_SIZE_MAX :
       ReplyBreaks(buf, size)
  \/ \E key \in 1..(WORD - 1) : GetArg(key)
  \/ WalkTurn

PkSpec == PkInit /\ [][PkNext]_pkVars

-----------------------------------------------------------------------------
(* Properties *)

\* The types.  The packet stays inside the buffer, and a walk, also one over what a
\* failed reception has left, no further than eight bytes behind it.
PkTypeOK ==
  /\ pkt_buffer \in [Offsets -> Byte]
  /\ pkt_size \in 0..PKT_SIZE_MAX
  /\ arg \in [size : 0..(WORD - 1), data : 0..(PKT_SIZE_MAX + 4)]
  /\ result \in {"NONE", "OK", "NO_MEMORY", "INVALID_ARGUMENT"}
  /\ arg_type \in 0..(WORD - 1)
  /\ args_nr \in 0..(WORD - 1)
  /\ i \in 0..args_nr
  /\ pdata \in 0..(PKT_SIZE_MAX + 3 + WORD)
  /\ holds \in {"nothing", "command", "reply", "broken"}
  /\ packet \in Seq([key : 0..(WORD - 1), at : 4..PKT_SIZE_MAX, data : Seq(Byte)])
  /\ got \in [key : 0..(WORD - 1), ok : BOOLEAN]

\* What was put into a command can be read back from its bytes, however many
\* arguments there are and whichever did not fit (hcp_tiny.c 60-98).
PacketEncoded ==
  holds \in {"command", "reply"} => Encodes(pkt_buffer, pkt_size, packet)

\* The walk of bmlite_get_arg is at the beginning of an argument or at the end, and
\* has not gone past one with the key (hcp_tiny.c 104-114).
WalkInStep ==
  ~NotWalking /\ holds \in {"command", "reply"} =>
    /\ args_nr = Len(packet)
    /\ pdata = IF i = Len(packet) THEN pkt_size ELSE packet[i + 1].at
    /\ \A j \in 1..i : packet[j].key # arg_type

Bytes(at, size) == [n \in 1..size |-> pkt_buffer[at + n - 1]]

List == INSTANCE ArgList WITH
  args  <- [j \in 1..Len(packet) |->
              [key |-> packet[j].key, data |-> packet[j].data]],
  found <- [key  |-> got.key,
            ok   |-> got.ok,
            data |-> IF got.ok THEN Bytes(arg.data, arg.size) ELSE <<>>]

\* The bytes behave like a list of arguments: bmlite_add_arg appends to it or leaves
\* it alone, and bmlite_get_arg finds the first argument with the key, with its
\* size and data, or none if there is none, never one of an older packet in the
\* same buffer ("place pointer to argument data in receiving buffer to
\* hcp_comm->arg.data and size of the argument in hcp_comm->arg.size").
ImplementsArgList == List!AlSpec

=============================================================================
