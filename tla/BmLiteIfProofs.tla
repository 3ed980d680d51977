--------------------------- MODULE BmLiteIfProofs ---------------------------
(***************************************************************************)
(* Proofs about BmLiteIf for all functions, all calls of them one after    *)
(* the other, every size of the buffer below that of a uint16_t and every  *)
(* data the module may send: its steps are steps of HcpPacket, so what     *)
(* HcpPacketProofs shows carries over, the module gets the command asked   *)
(* for, and the caller gets what is in the answer.                         *)
(*                                                                         *)
(* The properties look at a function that has returned; the invariant      *)
(* follows it on its way there.  Until it has sent its command, the packet *)
(* is the first part of what is asked for, and what it has yet to add is   *)
(* the rest (Asking).  Then the packet is the answer or is broken          *)
(* (Answered), and once the end of bmlite_tranceive has looked for it,     *)
(* bep_result is the status of the answer, at which arg still points if    *)
(* there is one (StatusTaken).                                             *)
(***************************************************************************)
EXTENDS BmLiteIf, HcpPacketProofs, WellFoundedInduction

-----------------------------------------------------------------------------
(* The inductive invariant *)

\* The arguments the running function has put into the packet.
First(f) == IF f.key = Arg.NONE THEN 0 ELSE 1
Done     == Len(fn.adds) - Len(adds)

Asking ==
  pc \in {"build", "exchange"} =>
    /\ NotWalking /\ holds = "command" /\ com = "NONE" /\ sent = <<>>
    /\ Word(pkt_buffer, 0) = fn.cmd
    /\ Len(adds) <= Len(fn.adds)
    /\ \A j \in 1..Len(adds) : adds[j] = fn.adds[Done + j]
    /\ Len(packet) = First(fn) + Done
    /\ \A j \in 1..Len(packet) :
         packet[j].key = Asked(fn)[j].key /\ packet[j].data = Asked(fn)[j].data
    /\ pc = "build" <=> adds # <<>>

\* The packet is the answer.
IsAnswer ==
  /\ Len(packet) = Len(answer)
  /\ \A j \in 1..Len(packet) :
       packet[j].key = answer[j].key /\ packet[j].data = answer[j].data

Answered ==
  pc \in {"status", "take"} =>
    /\ Len(sent) = 1
    /\ com # "NONE"
    /\ com = "OK" => holds = "reply" /\ answer \in Answers(fn) /\ IsAnswer
    /\ com # "OK" => holds = "broken" /\ pc = "status"
    /\ ~NotWalking => arg_type = IF pc = "status" THEN Arg.RESULT ELSE fn.key2

\* bep_result and the place of arg once the status of the answer has been looked for.
HasStatus ==
  LET status == FirstIn(Arg.RESULT)
  IN  /\ bep_result = IF status = 0 THEN 0 ELSE answer[status].data[1]
      /\ status # 0 => arg.data # 0 /\ pkt_buffer[arg.data] = answer[status].data[1]

StatusTaken == pc = "take" => com = "OK" /\ fn.take # "none" /\ HasStatus

Running == pc # "idle" => ret = "NONE" /\ out = <<>>

Quiet == pc = "idle" => NotWalking /\ com = "NONE" /\ adds = <<>>

Typed ==
  /\ IfTypeOK
  /\ IsFunction(fn)
  /\ adds \in Seq([key : 1..(WORD - 1), size : 0..(WORD - 1)])
  /\ calls \in Nat

Tracked ==
  /\ Typed /\ Running /\ Quiet /\ Asking /\ Answered /\ StatusTaken
  /\ SentAsAsked /\ AnswerHonest /\ CopyFits /\ StatusReadAsCount

IfInv == PkInv /\ Tracked

-----------------------------------------------------------------------------
(* The constants, and a way to prove things for every number *)

\* What the proofs use of them.
LEMMA IfConstants ==
  /\ WORD \in Nat /\ WORD > 8 /\ PKT_SIZE_MAX \in 8..(WORD - 1)
  /\ 0 \in Byte /\ 3 \in Byte /\ 241 \in Byte
  /\ \A n \in Nat : n % BYTE \in Byte
<1>1. BYTE = 256 /\ PKT_SIZE_MAX < WORD  BY IfAssumption
<1>2. WORD \in Nat /\ WORD > 8
  <2>1. WORD = 256 * 256  BY <1>1 DEF WORD
  <2> QED  BY <2>1, SMT
<1>3. PKT_SIZE_MAX \in 8..(WORD - 1)
  <2>1. PKT_SIZE_MAX \in Nat /\ PKT_SIZE_MAX >= 8  BY PacketAssumption
  <2> QED  BY <2>1, <1>1, <1>2
<1>4. 0 \in Byte /\ 3 \in Byte /\ 241 \in Byte /\ \A n \in Nat : n % BYTE \in Byte
  BY <1>1, SMT DEF Byte
<1> QED  BY <1>2, <1>3, <1>4

\* The keys that have a meaning here.
LEMMA ArgValues ==
  /\ Arg.NONE = 0
  /\ Arg.RESULT \in 1..(WORD - 1) /\ Arg.ID \in 1..(WORD - 1)
  /\ Arg.RESULT # Arg.ID
<1>1. Arg.NONE = 0 /\ Arg.ID = 6 /\ Arg.RESULT = 8193  BY SMT DEF Arg
<1>2. WORD = 256 * 256  BY IfAssumption DEF WORD
<1> QED  BY <1>1, <1>2, SMT

\* The fields of a function.
LEMMA FunctionIs ==
  ASSUME NEW f, IsFunction(f)
  PROVE  /\ f.cmd \in 0..(WORD - 1) /\ f.key \in 0..(WORD - 1) /\ f.key2 \in 0..(WORD - 1)
         /\ f.adds \in Seq([key : 1..(WORD - 1), size : 0..(WORD - 1)])
         /\ f.room \in Nat \cup {NULL}
         /\ f.take \in {"none", "find", "value", "copy", "unchecked"}
         /\ f.take # "none" =>
              f.key2 \in 1..(WORD - 1) /\ f.key2 # Arg.ID /\ f.key2 # Arg.RESULT
         /\ f.take = "value" => f.room \in {2, 4}
         /\ f.take = "unchecked" => f.room = 4
<1>1. f \in [cmd  : 0..(WORD - 1), key : 0..(WORD - 1),
            adds : Seq([key : 1..(WORD - 1), size : 0..(WORD - 1)]),
            take : {"none", "find", "value", "copy", "unchecked"},
            key2 : 0..(WORD - 1), room : Nat \cup {NULL}, wait : Nat]
  BY DEF IsFunction
<1>2. f.key2 \in 0..(WORD - 1)  BY <1>1
<1>3. ASSUME f.take # "none"
      PROVE  f.key2 \in 1..(WORD - 1) /\ f.key2 # Arg.ID /\ f.key2 # Arg.RESULT
  <2>1. f.key2 \notin {Arg.NONE, Arg.ID, Arg.RESULT}  BY <1>3 DEF IsFunction
  <2>2. f.key2 # 0  BY <2>1, ArgValues
  <2> QED  BY <1>2, <2>1, <2>2, IfConstants
<1>4. /\ f.take = "value" => f.room \in {2, 4}
      /\ f.take = "unchecked" => f.room = 4
  BY DEF IsFunction
<1> QED  BY <1>1, <1>3, <1>4

\* A set of numbers that is not empty has a least one.
LEMMA LeastNumber ==
  ASSUME NEW S, S \subseteq Nat, S # {}
  PROVE  \E m \in S : \A k \in S : m <= k
<1> DEFINE R == OpToRel(<, Nat)
<1>1. IsWellFoundedOn(R, Nat)  BY NatLessThanWellFounded
<1>2. PICK m \in S : \A k \in S : ~(<<k, m>> \in R)
  <2> HIDE DEF R
  <2> QED  BY <1>1, WFMin
<1>3. ASSUME NEW k \in S, k < m PROVE FALSE
  <2>1. k \in Nat /\ m \in Nat  OBVIOUS
  <2>2. <<k, m>> \in R  BY <2>1, <1>3 DEF OpToRel
  <2> QED  BY <2>2, <1>2
<1>4. ASSUME NEW k \in S PROVE m <= k
  <2>1. k \in Nat /\ m \in Nat  OBVIOUS
  <2> QED  BY <2>1, <1>3
<1> QED  BY <1>4

\* A set that has 0, and with a number the next one, has every number.
LEMMA EveryNumber ==
  ASSUME NEW T, 0 \in T, \A n \in Nat : n \in T => n + 1 \in T
  PROVE  Nat \subseteq T
<1> DEFINE S == Nat \ T
<1> SUFFICES ASSUME S # {} PROVE FALSE  OBVIOUS
<1>1. PICK m \in S : \A k \in S : m <= k
  <2>1. S \subseteq Nat  OBVIOUS
  <2> HIDE DEF S
  <2> QED  BY <2>1, LeastNumber
<1>2. m \in Nat /\ m \notin T /\ m # 0  OBVIOUS
<1>3. m - 1 \in Nat /\ m - 1 \in T
  <2>1. m - 1 \in Nat /\ ~(m <= m - 1)  BY <1>2
  <2> QED  BY <2>1, <1>1
<1>4. m - 1 + 1 = m  BY <1>2
<1> QED  BY <1>2, <1>3, <1>4

-----------------------------------------------------------------------------
(* What the module may answer *)

\* An argument of an answer to f.
IsAnswerArg(f, a) ==
  /\ a \in [key : 1..(WORD - 1), data : Seq(Byte)]
  /\ Len(a.data) < WORD
  /\ a.key = Arg.RESULT => a.data \in {<<0>>, <<241>>}
  /\ a.key = f.key2 =>
       /\ f.take = "value" => Len(a.data) = f.room
       /\ f.take = "unchecked" => Len(a.data) = 4

\* A sequence of bytes by its elements.
LEMMA BytesAre ==
  ASSUME NEW n \in Nat, NEW s, s \in [1..n -> Byte]
  PROVE  s \in Seq(Byte) /\ Len(s) = n
OBVIOUS

\* The arguments with the key asked for.
LEMMA ArgumentsAre ==
  ASSUME NEW key \in 1..(WORD - 1), NEW sizes, sizes \subseteq 0..(WORD - 1),
         NEW a \in Arguments(key, sizes)
  PROVE  a.key = key /\ a \in [key : 1..(WORD - 1), data : Seq(Byte)] /\ Len(a.data) \in sizes
<1>1. PICK size \in sizes : a = [key |-> key, data |-> [n \in 1..size |-> (100 + n) % BYTE]]
  BY DEF Arguments
<1>2. size \in Nat
  <2>1. size \in 0..(WORD - 1)  OBVIOUS
  <2> QED  BY <2>1
<1>3. \A n \in 1..size : (100 + n) % BYTE \in Byte
  <2>1. \A n \in 1..size : 100 + n \in Nat  BY <1>2
  <2> QED  BY <2>1, IfConstants
<1>4. [n \in 1..size |-> (100 + n) % BYTE] \in [1..size -> Byte]  BY <1>3
<1>5. a.data \in Seq(Byte) /\ Len(a.data) = size  BY <1>1, <1>2, <1>4, BytesAre
<1> QED  BY <1>1, <1>5

\* Every argument a function may be answered with is one.
LEMMA AnswerArgs ==
  ASSUME NEW f, IsFunction(f), NEW a \in {Ok, Failed, Other, Long} \cup Taken(f)
  PROVE  IsAnswerArg(f, a)
<1>1. CASE a \in {Ok, Failed, Other, Long}
  <2>1. f.take # "none" => a.key # f.key2
    BY <1>1, FunctionIs, ArgValues DEF Ok, Failed, Other, Long
  <2>2. CASE a = Ok \/ a = Failed
    <3>1. <<0>> \in Seq(Byte) /\ <<241>> \in Seq(Byte)  BY IfConstants
    <3>2. Len(a.data) = 1  BY <2>2 DEF Ok, Failed
    <3>3. 1 < WORD  BY IfConstants
    <3>4. /\ a \in [key : 1..(WORD - 1), data : Seq(Byte)]
          /\ a.data \in {<<0>>, <<241>>}
      <4>1. a.key = Arg.RESULT /\ a.data \in {<<0>>, <<241>>}  BY <2>2 DEF Ok, Failed
      <4>2. a = [key |-> a.key, data |-> a.data]  BY <2>2 DEF Ok, Failed
      <4>3. a.key \in 1..(WORD - 1)  BY <4>1, ArgValues
      <4>4. a.data \in Seq(Byte)  BY <3>1, <4>1
      <4> QED  BY <4>1, <4>2, <4>3, <4>4, Zenon
    <3> QED  BY <2>1, <3>2, <3>3, <3>4 DEF IsAnswerArg
  <2>3. CASE a = Other
    <3>1. <<0, 0, 0, 0>> \in Seq(Byte) /\ Len(<<0, 0, 0, 0>>) = 4  BY IfConstants
    <3>2. 4 < WORD  BY IfConstants
    <3>3. a.data = <<0, 0, 0, 0>> /\ a.key # Arg.RESULT
          /\ a \in [key : 1..(WORD - 1), data : Seq(Byte)]
      BY <2>3, <3>1, <3>2, ArgValues DEF Other
    <3> QED  BY <2>1, <3>1, <3>2, <3>3 DEF IsAnswerArg
  <2>4. CASE a = Long
    <3>1. PKT_SIZE_MAX - 8 \in Nat /\ PKT_SIZE_MAX - 8 < WORD  BY IfConstants
    <3>2. [n \in 1..(PKT_SIZE_MAX - 8) |-> 0] \in [1..(PKT_SIZE_MAX - 8) -> Byte]
      BY IfConstants
    <3>3. a.data \in Seq(Byte) /\ Len(a.data) = PKT_SIZE_MAX - 8
      BY <2>4, <3>1, <3>2, BytesAre DEF Long
    <3>5. a \in [key : 1..(WORD - 1), data : Seq(Byte)] /\ a.key # Arg.RESULT
      BY <2>4, <3>3, ArgValues DEF Long
    <3> QED  BY <2>1, <3>1, <3>3, <3>5 DEF IsAnswerArg
  <2> QED  BY <1>1, <2>2, <2>3, <2>4
<1>2. CASE a \in Taken(f)
  <2>1. f.take # "none"  BY <1>2 DEF Taken
  <2>2. f.key2 \in 1..(WORD - 1) /\ f.key2 # Arg.RESULT
    BY <2>1, FunctionIs
  <2>3. CASE f.take = "value"
    <3>1. a \in Arguments(f.key2, {f.room}) /\ f.room \in 0..(WORD - 1)
      <4>1. f.room \in {2, 4}  BY <2>3, FunctionIs
      <4>2. a \in Arguments(f.key2, {f.room})  BY <1>2, <2>3 DEF Taken
      <4> QED  BY <4>1, <4>2, IfConstants
    <3>2. a.key = f.key2 /\ a \in [key : 1..(WORD - 1), data : Seq(Byte)]
          /\ Len(a.data) = f.room
      BY <2>2, <3>1, ArgumentsAre
    <3>3. Len(a.data) < WORD
      <4>1. f.room \in {2, 4}  BY <2>3, FunctionIs
      <4> QED  BY <3>2, <4>1, IfConstants
    <3> QED  BY <2>2, <2>3, <3>2, <3>3 DEF IsAnswerArg
  <2>4. CASE f.take = "unchecked"
    <3>1. PICK n \in {0, 3} : a = [key |-> f.key2, data |-> <<n, 0, 0, 0>>]
      BY <1>2, <2>4 DEF Taken
    <3>2. n \in Byte  BY <3>1, IfConstants DEF Byte
    <3>3. <<n, 0, 0, 0>> \in Seq(Byte) /\ Len(<<n, 0, 0, 0>>) = 4  BY <3>2, IfConstants
    <3>4. a.key = f.key2 /\ a.data = <<n, 0, 0, 0>>  BY <3>1
    <3>5. a \in [key : 1..(WORD - 1), data : Seq(Byte)]  BY <2>2, <3>1, <3>3
    <3>6. Len(a.data) = 4 /\ 4 < WORD  BY <3>3, <3>4, IfConstants
    <3> QED  BY <2>2, <2>4, <3>4, <3>5, <3>6 DEF IsAnswerArg
  <2>5. CASE f.take \notin {"none", "value", "unchecked"}
    <3>1. a \in Arguments(f.key2, Payloads)  BY <1>2, <2>5 DEF Taken
    <3>2. a.key = f.key2 /\ a \in [key : 1..(WORD - 1), data : Seq(Byte)]
          /\ Len(a.data) \in Payloads
      <4>1. Payloads \subseteq 0..(WORD - 1)  BY IfAssumption
      <4> QED  BY <2>2, <3>1, <4>1, ArgumentsAre
    <3>3. Len(a.data) < WORD
      <4>1. Len(a.data) \in 0..(WORD - 1)  BY <3>2, IfAssumption
      <4> QED  BY <4>1, IfConstants
    <3> QED  BY <2>2, <2>5, <3>2, <3>3 DEF IsAnswerArg
  <2> QED  BY <2>1, <2>3, <2>4, <2>5
<1> QED  BY <1>1, <1>2

\* The answers in terms of their arguments,
LEMMA AnswersAre ==
  ASSUME NEW f, NEW an \in Answers(f)
  PROVE  \/ an \in {<<Failed>>, <<Failed, Other>>, <<Long, Failed>>}
         \/ an \in {<<>>, <<Ok>>}
         \/ \E v \in Taken(f) : an \in {<<Ok, v>>, <<v>>, <<Other, v>>, <<v, Ok>>}
         \/ \E v \in Taken(f) : \E w \in Taken(f) : an = <<v, w>>
<1> DEFINE A == {<<>>, <<Ok>>, <<Failed>>, <<Failed, Other>>, <<Long, Failed>>}
           C == UNION {{<<Ok, v>>, <<v>>, <<Other, v>>, <<v, Ok>>} : v \in Taken(f)}
           D == {<<v, w>> : v, w \in Taken(f)}
<1>1. Answers(f) = A \cup C \cup D  BY DEF Answers
<1>2. CASE an \in A  BY <1>2
<1>3. CASE an \in C  BY <1>3
<1>4. CASE an \in D  BY <1>4
<1>5. an \in A \/ an \in C \/ an \in D
  <2> HIDE DEF A, C, D
  <2> QED  BY <1>1
<1> QED  BY <1>2, <1>3, <1>4, <1>5

\* which are a few.
LEMMA AnswerIs ==
  ASSUME NEW f, IsFunction(f), NEW an \in Answers(f)
  PROVE  /\ an = <<>> \/ (\E v : an = <<v>>) \/ (\E v, w : an = <<v, w>>)
         /\ \A j \in 1..Len(an) : IsAnswerArg(f, an[j])
<1> DEFINE G == {Ok, Failed, Other, Long} \cup Taken(f)
<1>1. CASE an = <<>>  BY <1>1
<1>2. ASSUME NEW v \in G, an = <<v>>
      PROVE  /\ \E x : an = <<x>>
             /\ \A j \in 1..Len(an) : IsAnswerArg(f, an[j])
  <2>1. IsAnswerArg(f, v)  BY AnswerArgs
  <2>2. Len(an) = 1 /\ an[1] = v  BY <1>2
  <2> QED  BY <1>2, <2>1, <2>2
<1>3. ASSUME NEW v \in G, NEW w \in G, an = <<v, w>>
      PROVE  /\ \E x, y : an = <<x, y>>
             /\ \A j \in 1..Len(an) : IsAnswerArg(f, an[j])
  <2>1. IsAnswerArg(f, v) /\ IsAnswerArg(f, w)  BY AnswerArgs
  <2>2. Len(an) = 2 /\ an[1] = v /\ an[2] = w  BY <1>3
  <2> QED  BY <1>3, <2>1, <2>2
<1>4. \/ an = <<>>
      \/ \E v \in G : an = <<v>>
      \/ \E v \in G : \E w \in G : an = <<v, w>>
  <2>1. Ok \in G /\ Failed \in G /\ Other \in G /\ Long \in G /\ Taken(f) \subseteq G  OBVIOUS
  <2> HIDE DEF G
  <2>2. CASE an \in {<<Failed>>, <<Failed, Other>>, <<Long, Failed>>}  BY <2>1, <2>2
  <2>3. CASE an \in {<<>>, <<Ok>>}  BY <2>1, <2>3
  <2>4. ASSUME NEW v \in Taken(f), an \in {<<Ok, v>>, <<v>>, <<Other, v>>, <<v, Ok>>}
        PROVE  (\E x \in G : an = <<x>>) \/ (\E x \in G : \E y \in G : an = <<x, y>>)
    BY <2>1, <2>4
  <2>5. ASSUME NEW v \in Taken(f), NEW w \in Taken(f), an = <<v, w>>
        PROVE  \E x \in G : \E y \in G : an = <<x, y>>
    BY <2>1, <2>5
  <2> QED  BY <2>2, <2>3, <2>4, <2>5, AnswersAre
<1> HIDE DEF G
<1> QED  BY <1>1, <1>2, <1>3, <1>4

-----------------------------------------------------------------------------
(* The bytes of an answer *)

\* One sequence of bytes behind another.
LEMMA Joined ==
  ASSUME NEW s \in Seq(Byte), NEW t \in Seq(Byte)
  PROVE  /\ s \o t \in Seq(Byte)
         /\ Len(s \o t) = Len(s) + Len(t)
         /\ \A k \in 1..Len(s) : (s \o t)[k] = s[k]
         /\ \A k \in 1..Len(t) : (s \o t)[Len(s) + k] = t[k]
<1>1. Len(s) \in Nat /\ Len(t) \in Nat  OBVIOUS
<1>2. s \o t \in Seq(Byte) /\ Len(s \o t) = Len(s) + Len(t)  OBVIOUS
<1>3. \A k \in 1..Len(s) : (s \o t)[k] = s[k]  OBVIOUS
<1>4. ASSUME NEW k \in 1..Len(t) PROVE (s \o t)[Len(s) + k] = t[k]
  <2>1. Len(s) + k \in 1..(Len(s) + Len(t)) /\ ~(Len(s) + k <= Len(s))
        /\ Len(s) + k - Len(s) = k
    BY <1>1
  <2> QED  BY <2>1
<1> QED  BY <1>2, <1>3, <1>4

\* A uint16_t in a sequence of bytes.
Number(s, k) == s[k] + BYTE * s[k + 1]

\* Two fields and what follows them: an argument, or a packet.
Headed(v, w, rest) == Field(v) \o Field(w) \o rest

\* Where their bytes are.
LEMMA HeadedBytes ==
  ASSUME NEW v \in 0..(WORD - 1), NEW w \in 0..(WORD - 1), NEW rest \in Seq(Byte)
  PROVE  /\ Headed(v, w, rest) \in Seq(Byte)
         /\ Len(Headed(v, w, rest)) = 4 + Len(rest)
         /\ Number(Headed(v, w, rest), 1) = v
         /\ Number(Headed(v, w, rest), 3) = w
         /\ \A k \in 1..Len(rest) : Headed(v, w, rest)[4 + k] = rest[k]
<1>1. PICK x : x = Field(v)  OBVIOUS
<1>2. PICK y : y = Field(w)  OBVIOUS
<1>3. x \in Seq(Byte) /\ Len(x) = 2 /\ Number(x, 1) = v  BY <1>1, FieldIs DEF Number
<1>4. y \in Seq(Byte) /\ Len(y) = 2 /\ Number(y, 1) = w  BY <1>2, FieldIs DEF Number
<1>5. PICK z : z = (x \o y) \o rest  OBVIOUS
<1>6. PICK xy : xy = x \o y  OBVIOUS
<1>7. /\ xy \in Seq(Byte) /\ Len(xy) = 4
      /\ xy[1] = x[1] /\ xy[2] = x[2] /\ xy[3] = y[1] /\ xy[4] = y[2]
  <2>1. /\ xy \in Seq(Byte) /\ Len(xy) = Len(x) + Len(y)
        /\ \A k \in 1..Len(x) : xy[k] = x[k]
        /\ \A k \in 1..Len(y) : xy[Len(x) + k] = y[k]
    BY <1>3, <1>4, <1>6, Joined
  <2>2. 3 = Len(x) + 1 /\ 4 = Len(x) + 2  BY <1>3
  <2>3. 1 \in 1..Len(x) /\ 2 \in 1..Len(x) /\ 1 \in 1..Len(y) /\ 2 \in 1..Len(y)
    BY <1>3, <1>4
  <2>4. Len(xy) = 4  BY <2>1, <1>3, <1>4
  <2>5. xy[3] = y[1] /\ xy[4] = y[2]  BY <2>1, <2>2, <2>3
  <2> QED  BY <2>1, <2>3, <2>4, <2>5
<1>11. /\ z \in Seq(Byte) /\ Len(z) = 4 + Len(rest)
       /\ \A k \in 1..4 : z[k] = xy[k]
       /\ \A k \in 1..Len(rest) : z[4 + k] = rest[k]
  <2>1. z = xy \o rest  BY <1>5, <1>6
  <2>2. /\ z \in Seq(Byte) /\ Len(z) = Len(xy) + Len(rest)
        /\ \A k \in 1..Len(xy) : z[k] = xy[k]
        /\ \A k \in 1..Len(rest) : z[Len(xy) + k] = rest[k]
    BY <1>7, <2>1, Joined
  <2> QED  BY <2>2, <1>7
<1>8. z[1] = x[1] /\ z[2] = x[2] /\ z[3] = y[1] /\ z[4] = y[2]  BY <1>7, <1>11
<1>9. Headed(v, w, rest) = z  BY <1>1, <1>2, <1>5 DEF Headed
<1>12. Number(z, 1) = v /\ Number(z, 3) = w  BY <1>3, <1>4, <1>8 DEF Number
<1> QED  BY <1>9, <1>11, <1>12

\* The fields,
LEMMA HeadedIs ==
  ASSUME NEW v \in 0..(WORD - 1), NEW w \in 0..(WORD - 1), NEW rest \in Seq(Byte)
  PROVE  /\ Headed(v, w, rest) \in Seq(Byte)
         /\ Len(Headed(v, w, rest)) = 4 + Len(rest)
         /\ Number(Headed(v, w, rest), 1) = v
         /\ Number(Headed(v, w, rest), 3) = w
BY HeadedBytes

\* and what follows.
LEMMA HeadedRest ==
  ASSUME NEW v \in 0..(WORD - 1), NEW w \in 0..(WORD - 1), NEW rest \in Seq(Byte),
         NEW k \in 1..Len(rest)
  PROVE  Headed(v, w, rest)[4 + k] = rest[k]
BY HeadedBytes

\* Bytes stored from the beginning of the buffer on.
LEMMA StoredFirst ==
  ASSUME NEW buf \in [Offsets -> Byte], NEW bytes \in Seq(Byte)
  PROVE  /\ Store(buf, 0, bytes) \in [Offsets -> Byte]
         /\ \A o \in Offsets : o < Len(bytes) => Store(buf, 0, bytes)[o] = bytes[o + 1]
<1>1. 0 \in Nat  OBVIOUS
<1>2. Store(buf, 0, bytes) \in [Offsets -> Byte]  BY <1>1, StoreIs
<1>3. ASSUME NEW o \in Offsets, o < Len(bytes)
      PROVE  Store(buf, 0, bytes)[o] = bytes[o + 1]
  <2>1. o \in Nat  BY Constants DEF Offsets
  <2>2. 0 <= o /\ o < 0 + Len(bytes) /\ o - 0 + 1 = o + 1  BY <1>3, <2>1
  <2> QED  BY <2>2 DEF Store
<1> QED  BY <1>2, <1>3

\* A packet with one argument more, as bytes.
LEMMA LongerAnswer ==
  ASSUME NEW buf \in [Offsets -> Byte], NEW cmd \in 0..(WORD - 1),
         NEW n \in Nat, n + 1 < WORD, NEW rest \in Seq(Byte),
         NEW key \in 0..(WORD - 1), NEW data \in Seq(Byte), Len(data) < WORD,
         4 + Len(rest) + 4 + Len(data) <= PKT_SIZE_MAX
  PROVE  Longer(Store(buf, 0, Headed(cmd, n + 1, rest \o Headed(key, Len(data), data))),
                Store(buf, 0, Headed(cmd, n, rest)), 4 + Len(rest), key, data)
<1>1. WORD \in Nat /\ PKT_SIZE_MAX \in Nat /\ Len(data) \in 0..(WORD - 1)
      /\ n \in 0..(WORD - 1) /\ n + 1 \in 0..(WORD - 1) /\ Len(rest) \in Nat
  BY Constants
<1>2. PICK e : e = Headed(key, Len(data), data)  OBVIOUS
<1>3. /\ e \in Seq(Byte) /\ Len(e) = 4 + Len(data)
      /\ Number(e, 1) = key /\ Number(e, 3) = Len(data)
      /\ \A k \in 1..Len(data) : e[4 + k] = data[k]
  <2>3. PICK m \in 0..(WORD - 1) : m = Len(data)  BY <1>1
  <2> DEFINE H == Headed(key, m, data)
  <2>1. /\ H \in Seq(Byte) /\ Len(H) = 4 + Len(data)
        /\ Number(H, 1) = key /\ Number(H, 3) = m
    BY HeadedIs
  <2>4. ASSUME NEW k \in 1..Len(data) PROVE H[4 + k] = data[k]
    BY HeadedRest
  <2> HIDE DEF H
  <2>2. e = H  BY <1>2, <2>3 DEF H
  <2> QED  BY <2>1, <2>2, <2>3, <2>4
<1>4. PICK r : r = rest \o e  OBVIOUS
<1>5. /\ r \in Seq(Byte) /\ Len(r) = Len(rest) + 4 + Len(data)
      /\ \A k \in 1..Len(rest) : r[k] = rest[k]
      /\ \A k \in 1..Len(e) : r[Len(rest) + k] = e[k]
  <2>1. /\ r \in Seq(Byte) /\ Len(r) = Len(rest) + Len(e)
        /\ \A k \in 1..Len(rest) : r[k] = rest[k]
        /\ \A k \in 1..Len(e) : r[Len(rest) + k] = e[k]
    BY <1>3, <1>4, Joined
  <2> QED  BY <2>1, <1>1, <1>3
<1>6. PICK new : new = Headed(cmd, n + 1, r)  OBVIOUS
<1>7. /\ new \in Seq(Byte) /\ Len(new) = 4 + Len(rest) + 4 + Len(data)
      /\ Number(new, 3) = n + 1
      /\ \A k \in 1..Len(r) : new[4 + k] = r[k]
  <2> DEFINE H == Headed(cmd, n + 1, r)
  <2>1. /\ H \in Seq(Byte) /\ Len(H) = 4 + Len(r)
        /\ Number(H, 3) = n + 1
    BY <1>1, <1>5, HeadedIs
  <2>4. ASSUME NEW k \in 1..Len(r) PROVE H[4 + k] = r[k]
    BY <1>1, <1>5, HeadedRest
  <2> HIDE DEF H
  <2>2. new = H  BY <1>6 DEF H
  <2>3. 4 + Len(r) = 4 + Len(rest) + 4 + Len(data)  BY <1>1, <1>5
  <2> QED  BY <2>1, <2>2, <2>3, <2>4
<1>8. PICK old : old = Headed(cmd, n, rest)  OBVIOUS
<1>9. /\ old \in Seq(Byte) /\ Len(old) = 4 + Len(rest)
      /\ Number(old, 3) = n
      /\ \A k \in 1..Len(rest) : old[4 + k] = rest[k]
  <2> DEFINE H == Headed(cmd, n, rest)
  <2>5. n \in 0..(WORD - 1)  BY <1>1
  <2>1. /\ H \in Seq(Byte) /\ Len(H) = 4 + Len(rest)
        /\ Number(H, 3) = n
    BY <2>5, HeadedIs
  <2>4. ASSUME NEW k \in 1..Len(rest) PROVE H[4 + k] = rest[k]
    BY <1>1, HeadedRest
  <2> HIDE DEF H
  <2>2. old = H  BY <1>8 DEF H
  <2> QED  BY <2>1, <2>2, <2>4
<1>10. PICK b : b = Store(buf, 0, new)  OBVIOUS
<1>11. PICK c : c = Store(buf, 0, old)  OBVIOUS
<1>12. \A o \in Nat : o < 4 + Len(rest) + 4 + Len(data) => o \in Offsets
  BY <1>1 DEF Offsets
<1>13. \A o \in Nat : o < 4 + Len(rest) + 4 + Len(data) => b[o] = new[o + 1]
  BY <1>7, <1>10, <1>12, StoredFirst
<1>14. \A o \in Nat : o < 4 + Len(rest) => c[o] = old[o + 1]
  <2>1. \A o \in Nat : o < 4 + Len(rest) => o < 4 + Len(rest) + 4 + Len(data)  BY <1>1
  <2> QED  BY <1>9, <1>11, <1>12, <2>1, StoredFirst
<1>15. Word(b, 2) = n + 1 /\ Word(c, 2) = n
  <2>1. b[2] = new[3] /\ b[3] = new[4]  BY <1>1, <1>13
  <2>2. c[2] = old[3] /\ c[3] = old[4]  BY <1>1, <1>14
  <2> QED  BY <2>1, <2>2, <1>7, <1>9 DEF Word, Number
<1>16. \A k \in 1..(4 + Len(data)) : b[4 + Len(rest) + k - 1] = e[k]
  <2> TAKE k \in 1..(4 + Len(data))
  <2>1. /\ 4 + Len(rest) + k - 1 \in Nat
        /\ 4 + Len(rest) + k - 1 < 4 + Len(rest) + 4 + Len(data)
        /\ 4 + Len(rest) + k - 1 + 1 = 4 + (Len(rest) + k)
    BY <1>1
  <2>2. b[4 + Len(rest) + k - 1] = new[4 + (Len(rest) + k)]  BY <1>13, <2>1
  <2>3. Len(rest) + k \in 1..Len(r)  BY <1>1, <1>5
  <2> QED  BY <2>2, <2>3, <1>3, <1>5, <1>7
<1>17. Word(b, 4 + Len(rest)) = key /\ Word(b, 4 + Len(rest) + 2) = Len(data)
  <2>1. /\ 4 + Len(rest) = 4 + Len(rest) + 1 - 1
        /\ 4 + Len(rest) + 1 = 4 + Len(rest) + 2 - 1
        /\ 4 + Len(rest) + 2 = 4 + Len(rest) + 3 - 1
        /\ 4 + Len(rest) + 2 + 1 = 4 + Len(rest) + 4 - 1
        /\ {1, 2, 3, 4} \subseteq 1..(4 + Len(data))
    BY <1>1
  <2>2. /\ b[4 + Len(rest)] = e[1] /\ b[4 + Len(rest) + 1] = e[2]
        /\ b[4 + Len(rest) + 2] = e[3] /\ b[4 + Len(rest) + 2 + 1] = e[4]
    BY <1>16, <2>1
  <2> QED  BY <2>2, <1>3 DEF Word, Number
<1>18. ASSUME NEW k \in 1..Len(data) PROVE b[4 + Len(rest) + 3 + k] = data[k]
  <2>1. 4 + k \in 1..(4 + Len(data)) /\ 4 + Len(rest) + (4 + k) - 1 = 4 + Len(rest) + 3 + k
    BY <1>1
  <2>2. b[4 + Len(rest) + (4 + k) - 1] = e[4 + k]  BY <1>16, <2>1
  <2> QED  BY <2>1, <2>2, <1>3
<1>19. ASSUME NEW o \in 4..(4 + Len(rest) - 1) PROVE b[o] = c[o]
  <2>1. /\ o \in Nat /\ o < 4 + Len(rest) /\ o < 4 + Len(rest) + 4 + Len(data)
        /\ o - 3 \in 1..Len(rest) /\ o - 3 \in 1..Len(r) /\ o + 1 = 4 + (o - 3)
    BY <1>1, <1>5
  <2>2. b[o] = new[4 + (o - 3)] /\ c[o] = old[4 + (o - 3)]  BY <2>1, <1>13, <1>14
  <2> QED  BY <2>1, <2>2, <1>5, <1>7, <1>9
<1>20. Longer(b, c, 4 + Len(rest), key, data)
  BY <1>15, <1>17, <1>18, <1>19 DEF Longer
<1> QED  BY <1>20, <1>2, <1>4, <1>6, <1>8, <1>10, <1>11

\* An argument of an answer, as bytes.
LEMMA EncodedArgIs ==
  ASSUME NEW f, NEW a, IsAnswerArg(f, a)
  PROVE  /\ a.key \in 0..(WORD - 1) /\ a.data \in Seq(Byte) /\ Len(a.data) \in 0..(WORD - 1)
         /\ EncodedArg(a) = Headed(a.key, Len(a.data), a.data)
         /\ EncodedArg(a) \in Seq(Byte) /\ Len(EncodedArg(a)) = 4 + Len(a.data)
<1>1. a \in [key : 1..(WORD - 1), data : Seq(Byte)] /\ Len(a.data) < WORD
  BY DEF IsAnswerArg
<1>2. a.data \in Seq(Byte)  BY <1>1
<1>3. PICK d \in Seq(Byte) : d = a.data  BY <1>2
<1>4. PICK m \in 0..(WORD - 1) : m = Len(d)
  <2>1. Len(d) \in Nat /\ Len(d) < WORD  BY <1>1, <1>3
  <2> QED  BY <2>1, Constants
<1>5. PICK key \in 0..(WORD - 1) : key = a.key
  <2>1. a.key \in 1..(WORD - 1)  BY <1>1
  <2>2. a.key \in 0..(WORD - 1)  BY <2>1, Constants
  <2> QED  BY <2>2
<1>6. EncodedArg(a) = Headed(key, m, d)  BY <1>3, <1>4, <1>5 DEF EncodedArg, Headed
<1>7. Headed(key, m, d) \in Seq(Byte) /\ Len(Headed(key, m, d)) = 4 + Len(d)
  BY HeadedIs
<1> QED  BY <1>3, <1>4, <1>5, <1>6, <1>7

\* Two sequences and none make one (the library's FlattenSeq, which is a recursive
\* function).
LEMMA FlattenTwo ==
  ASSUME NEW s, Len(s) = 2
  PROVE  FlattenSeq(s) = s[1] \o s[2]
<1> DEFINE Solves(g) ==
             g = [j \in 1..Len(s) |-> IF j = 1 THEN s[j] ELSE g[j - 1] \o s[j]]
           known  == [j \in 1..2 |-> IF j = 1 THEN s[1] ELSE s[1] \o s[2]]
           chosen == CHOOSE g : Solves(g)
<1>1. Solves(known)
  <2>1. \A j \in 1..2 : known[j] = IF j = 1 THEN s[j] ELSE known[j - 1] \o s[j]
    OBVIOUS
  <2> QED  BY <2>1
<1>2. Solves(chosen)  BY <1>1
<1>3. FlattenSeq(s) = chosen[2]  BY DEF FlattenSeq
<1> HIDE DEF chosen
<1>4. chosen[1] = s[1] /\ chosen[2] = chosen[1] \o s[2]  BY <1>2
<1> QED  BY <1>3, <1>4

\* So does one,
LEMMA FlattenOne ==
  ASSUME NEW s, Len(s) = 1
  PROVE  FlattenSeq(s) = s[1]
<1> DEFINE Solves(g) ==
             g = [j \in 1..Len(s) |-> IF j = 1 THEN s[j] ELSE g[j - 1] \o s[j]]
           known  == [j \in 1..1 |-> s[1]]
           chosen == CHOOSE g : Solves(g)
<1>1. Solves(known)
  <2>1. \A j \in 1..1 : known[j] = IF j = 1 THEN s[j] ELSE known[j - 1] \o s[j]
    OBVIOUS
  <2> QED  BY <2>1
<1>2. Solves(chosen)  BY <1>1
<1>3. FlattenSeq(s) = chosen[1]  BY DEF FlattenSeq
<1> HIDE DEF chosen
<1>4. chosen[1] = s[1]  BY <1>2
<1> QED  BY <1>3, <1>4

\* A place for each argument of an answer: behind the four bytes of the packet, or
\* behind the argument before it.
LEMMA PlacedOne ==
  ASSUME NEW v
  PROVE  Placed(<<v>>) = <<Argument(v.key, 4, v.data)>>
<1> DEFINE s == <<v>>
           Solves(g) ==
             g = [j \in 1..Len(s) |-> IF j = 1 THEN 4 ELSE g[j - 1] + 4 + Len(s[j - 1].data)]
           known  == [j \in 1..1 |-> 4]
           chosen == CHOOSE g : Solves(g)
<1>1. Solves(known)
  <2>1. \A j \in 1..1 : known[j] = IF j = 1 THEN 4 ELSE known[j - 1] + 4 + Len(s[j - 1].data)
    OBVIOUS
  <2> QED  BY <2>1
<1>2. Solves(chosen)  BY <1>1
<1>3. Placed(s) = [j \in 1..Len(s) |-> Argument(s[j].key, chosen[j], s[j].data)]
  BY DEF Placed
<1> HIDE DEF chosen
<1>4. chosen[1] = 4  BY <1>2
<1> QED  BY <1>3, <1>4

\* The same for two.
LEMMA PlacedTwo ==
  ASSUME NEW v, NEW w
  PROVE  Placed(<<v, w>>) = <<Argument(v.key, 4, v.data),
                              Argument(w.key, 4 + 4 + Len(v.data), w.data)>>
<1> DEFINE s == <<v, w>>
           Solves(g) ==
             g = [j \in 1..Len(s) |-> IF j = 1 THEN 4 ELSE g[j - 1] + 4 + Len(s[j - 1].data)]
           known  == [j \in 1..2 |-> IF j = 1 THEN 4 ELSE 4 + 4 + Len(v.data)]
           chosen == CHOOSE g : Solves(g)
<1>1. Solves(known)
  <2>1. \A j \in 1..2 : known[j] = IF j = 1 THEN 4 ELSE known[j - 1] + 4 + Len(s[j - 1].data)
    OBVIOUS
  <2> QED  BY <2>1
<1>2. Solves(chosen)  BY <1>1
<1>3. Placed(s) = [j \in 1..Len(s) |-> Argument(s[j].key, chosen[j], s[j].data)]
  BY DEF Placed
<1> HIDE DEF chosen
<1>4. chosen[1] = 4 /\ chosen[2] = 4 + 4 + Len(v.data)  BY <1>2
<1> QED  BY <1>3, <1>4

\* The bytes of an answer without arguments,
LEMMA EncodedNone ==
  ASSUME NEW cmd
  PROVE  Encoded(cmd, <<>>) = Headed(cmd, 0, <<>>)
<1>1. FlattenSeq([j \in 1..Len(<<>>) |-> EncodedArg(<<>>[j])]) = <<>>
  BY DEF FlattenSeq
<1> QED  BY <1>1 DEF Encoded, Headed

\* with one,
LEMMA EncodedOne ==
  ASSUME NEW cmd, NEW v
  PROVE  Encoded(cmd, <<v>>) = Headed(cmd, 1, EncodedArg(v))
<1> DEFINE s == [j \in 1..Len(<<v>>) |-> EncodedArg(<<v>>[j])]
<1>1. s = <<EncodedArg(v)>>  OBVIOUS
<1>2. Len(s) = 1 /\ s[1] = EncodedArg(v)  BY <1>1
<1>3. FlattenSeq(s) = EncodedArg(v)
  <2> HIDE DEF s
  <2> QED  BY <1>2, FlattenOne
<1> QED  BY <1>3 DEF Encoded, Headed

\* and with two.
LEMMA EncodedTwo ==
  ASSUME NEW cmd, NEW v, NEW w
  PROVE  Encoded(cmd, <<v, w>>) = Headed(cmd, 2, EncodedArg(v) \o EncodedArg(w))
<1> DEFINE s == [j \in 1..Len(<<v, w>>) |-> EncodedArg(<<v, w>>[j])]
<1>1. s = <<EncodedArg(v), EncodedArg(w)>>  OBVIOUS
<1>2. Len(s) = 2 /\ s[1] = EncodedArg(v) /\ s[2] = EncodedArg(w)  BY <1>1
<1>3. FlattenSeq(s) = EncodedArg(v) \o EncodedArg(w)
  <2> HIDE DEF s
  <2> QED  BY <1>2, FlattenTwo
<1> QED  BY <1>3 DEF Encoded, Headed

\* An answer without arguments is a packet,
LEMMA NoneEncodes ==
  ASSUME NEW buf \in [Offsets -> Byte], NEW cmd \in 0..(WORD - 1)
  PROVE  Encodes(Store(buf, 0, Headed(cmd, 0, <<>>)), 4, <<>>)
<1>1. <<>> \in Seq(Byte) /\ Len(<<>>) = 0 /\ 0 \in 0..(WORD - 1)  BY Constants
<1>2. PICK h : h = Headed(cmd, 0, <<>>)  OBVIOUS
<1>3. h \in Seq(Byte) /\ Len(h) = 4 /\ Number(h, 3) = 0
  <2>1. \E none \in Seq(Byte) : none = <<>>
    <3>1. <<>> \in Seq(Byte)  BY EmptySeq
    <3> QED  BY <3>1, Zenon
  <2>2. PICK none \in Seq(Byte) : none = <<>>  BY <2>1
  <2> DEFINE X == Headed(cmd, 0, none)
  <2>3. X \in Seq(Byte) /\ Len(X) = 4 + Len(none) /\ Number(X, 3) = 0
    BY <1>1, HeadedIs
  <2> HIDE DEF X
  <2>4. h = X  BY <1>2, <2>2 DEF X
  <2>5. Len(none) = 0  BY <2>2
  <2> QED  BY <2>3, <2>4, <2>5
<1>4. PICK b : b = Store(buf, 0, h)  OBVIOUS
<1>5. b[2] = h[3] /\ b[3] = h[4]
  <2>1. 2 \in Offsets /\ 3 \in Offsets /\ 2 < Len(h) /\ 3 < Len(h)
    BY <1>3, Constants DEF Offsets
  <2> QED  BY <1>3, <1>4, <2>1, StoredFirst
<1>6. Word(b, 2) = 0  BY <1>3, <1>5 DEF Word, Number
<1>7. Encodes(b, 4, <<>>)  BY <1>6 DEF Encodes
<1> QED  BY <1>2, <1>4, <1>7

\* and remains one with each argument behind it that fits.
LEMMA OneMoreEncodes ==
  ASSUME NEW buf \in [Offsets -> Byte], NEW cmd \in 0..(WORD - 1),
         NEW n \in Nat, n + 1 < WORD, NEW rest \in Seq(Byte), NEW list \in Seq(PkArg),
         Encodes(Store(buf, 0, Headed(cmd, n, rest)), 4 + Len(rest), list),
         NEW f, NEW a, IsAnswerArg(f, a),
         4 + Len(rest) + 4 + Len(a.data) <= PKT_SIZE_MAX
  PROVE  /\ Encodes(Store(buf, 0, Headed(cmd, n + 1, rest \o EncodedArg(a))),
                    4 + Len(rest) + 4 + Len(a.data),
                    Append(list, Argument(a.key, 4 + Len(rest), a.data)))
         /\ Append(list, Argument(a.key, 4 + Len(rest), a.data)) \in Seq(PkArg)
         /\ rest \o EncodedArg(a) \in Seq(Byte)
         /\ Len(rest \o EncodedArg(a)) = Len(rest) + 4 + Len(a.data)
<1>1. /\ a.key \in 0..(WORD - 1) /\ a.data \in Seq(Byte) /\ Len(a.data) \in 0..(WORD - 1)
      /\ EncodedArg(a) = Headed(a.key, Len(a.data), a.data)
      /\ EncodedArg(a) \in Seq(Byte) /\ Len(EncodedArg(a)) = 4 + Len(a.data)
  BY EncodedArgIs
<1>2. PICK key \in 0..(WORD - 1) : key = a.key  BY <1>1
<1>3. PICK d \in Seq(Byte) : d = a.data  BY <1>1
<1>4. Len(d) < WORD /\ 4 + Len(rest) + 4 + Len(d) <= PKT_SIZE_MAX
  <2>1. Len(d) = Len(a.data)  BY <1>3
  <2>2. Len(a.data) < WORD  BY <1>1, Constants
  <2> QED  BY <2>1, <2>2
<1>5. PICK size \in 4..PKT_SIZE_MAX : size = 4 + Len(rest)
  <2>1. Len(rest) \in Nat /\ Len(d) \in Nat /\ PKT_SIZE_MAX \in Nat  BY Constants
  <2> QED  BY <2>1, <1>4
<1>6. PICK new : new = Store(buf, 0, Headed(cmd, n + 1, rest \o Headed(key, Len(d), d)))
  OBVIOUS
<1>7. PICK old : old = Store(buf, 0, Headed(cmd, n, rest))  OBVIOUS
<1>8. Longer(new, old, size, key, d)  BY <1>4, <1>5, <1>6, <1>7, LongerAnswer
<1>9. Encodes(old, size, list)  BY <1>5, <1>7
<1>10. Encodes(new, size + 4 + Len(d), Append(list, Argument(key, size, d)))
  BY <1>8, <1>9, EncodesLonger
<1>11. new = Store(buf, 0, Headed(cmd, n + 1, rest \o EncodedArg(a)))
  BY <1>1, <1>2, <1>3, <1>6
<1>12. Append(list, Argument(key, size, d)) \in Seq(PkArg)
  <2>1. Argument(key, size, d) \in PkArg  BY DEF Argument, PkArg
  <2> QED  BY <2>1
<1>13. /\ rest \o EncodedArg(a) \in Seq(Byte)
       /\ Len(rest \o EncodedArg(a)) = Len(rest) + 4 + Len(a.data)
  <2>1. PICK e \in Seq(Byte) : e = EncodedArg(a)  BY <1>1
  <2>2. rest \o e \in Seq(Byte) /\ Len(rest \o e) = Len(rest) + Len(e)  BY Joined
  <2>3. Len(rest) \in Nat /\ Len(a.data) \in Nat /\ Len(e) = 4 + Len(a.data)
    BY <1>1, <2>1
  <2>4. Len(rest) + Len(e) = Len(rest) + 4 + Len(a.data)
    <3>1. \A x, y \in Nat : x + (4 + y) = x + 4 + y  OBVIOUS
    <3> QED  BY <3>1, <2>3
  <2> QED  BY <2>1, <2>2, <2>4
<1>14. Encodes(new, 4 + Len(rest) + 4 + Len(a.data),
               Append(list, Argument(a.key, 4 + Len(rest), a.data)))
  BY <1>2, <1>3, <1>5, <1>10
<1>15. Append(list, Argument(a.key, 4 + Len(rest), a.data)) \in Seq(PkArg)
  BY <1>2, <1>3, <1>5, <1>12
<1> QED  BY <1>11, <1>13, <1>14, <1>15

\* The bytes of an answer are bytes, whether it fits the buffer or not.
LEMMA EncodedIs ==
  ASSUME NEW f, IsFunction(f), NEW an \in Answers(f), NEW cmd \in 0..(WORD - 1)
  PROVE  Encoded(cmd, an) \in Seq(Byte)
<1>1. 0 \in 0..(WORD - 1) /\ 1 \in 0..(WORD - 1) /\ 2 \in 0..(WORD - 1)  BY IfConstants
<1>2. \A j \in 1..Len(an) : EncodedArg(an[j]) \in Seq(Byte)
  <2> TAKE j \in 1..Len(an)
  <2>1. IsAnswerArg(f, an[j])  BY AnswerIs
  <2> QED  BY <2>1, EncodedArgIs
<1>3. CASE an = <<>>
  <2>1. <<>> \in Seq(Byte)  OBVIOUS
  <2>2. Headed(cmd, 0, <<>>) \in Seq(Byte)  BY <2>1, <1>1, HeadedIs
  <2> QED  BY <2>2, <1>3, EncodedNone
<1>4. ASSUME NEW v, an = <<v>> PROVE Encoded(cmd, an) \in Seq(Byte)
  <2>1. 1 \in 1..Len(an) /\ an[1] = v  BY <1>4
  <2>2. PICK e \in Seq(Byte) : e = EncodedArg(v)  BY <2>1, <1>2
  <2>3. Headed(cmd, 1, e) \in Seq(Byte)  BY <1>1, HeadedIs
  <2> QED  BY <2>2, <2>3, <1>4, EncodedOne
<1>5. ASSUME NEW v, NEW w, an = <<v, w>> PROVE Encoded(cmd, an) \in Seq(Byte)
  <2>1. 1 \in 1..Len(an) /\ an[1] = v /\ 2 \in 1..Len(an) /\ an[2] = w  BY <1>5
  <2>2. EncodedArg(v) \in Seq(Byte) /\ EncodedArg(w) \in Seq(Byte)  BY <2>1, <1>2
  <2>3. PICK x \in Seq(Byte), y \in Seq(Byte) : x = EncodedArg(v) /\ y = EncodedArg(w)
    BY <2>2
  <2>5. x \o y \in Seq(Byte)  BY Joined
  <2>4. Headed(cmd, 2, x \o y) \in Seq(Byte)  BY <2>5, <1>1, HeadedIs
  <2> QED  BY <2>3, <2>4, <1>5, EncodedTwo
<1> QED  BY <1>3, <1>4, <1>5, AnswerIs

\* What an answer that fits leaves in the buffer.
IsPacketOf(buf, cmd, an) ==
  /\ Placed(an) \in Seq(PkArg)
  /\ Len(Placed(an)) = Len(an)
  /\ \A j \in 1..Len(an) : Placed(an)[j].key = an[j].key /\ Placed(an)[j].data = an[j].data
  /\ Encodes(Store(buf, 0, Encoded(cmd, an)), Len(Encoded(cmd, an)), Placed(an))

\* And it leaves that, whatever was in the buffer before.
LEMMA AnswerEncodes ==
  ASSUME NEW f, IsFunction(f), NEW an \in Answers(f), NEW cmd \in 0..(WORD - 1),
         NEW buf \in [Offsets -> Byte], Len(Encoded(cmd, an)) < PKT_SIZE_MAX
  PROVE  IsPacketOf(buf, cmd, an)
<1>1. \A j \in 1..Len(an) : IsAnswerArg(f, an[j])  BY AnswerIs
<1>2. 0 \in 0..(WORD - 1) /\ 1 \in 0..(WORD - 1) /\ 2 \in 0..(WORD - 1)
      /\ 0 + 1 < WORD /\ 1 + 1 < WORD /\ WORD \in Nat /\ PKT_SIZE_MAX \in Nat
      /\ 4 <= PKT_SIZE_MAX
  BY IfConstants
<1>3. PICK none \in Seq(Byte) : none = <<>> /\ Len(none) = 0
  <2>1. <<>> \in Seq(Byte) /\ Len(<<>>) = 0  BY EmptySeq
  <2> QED  BY <2>1, Zenon
<1>4. PICK nil \in Seq(PkArg) : nil = <<>>
  <2>1. <<>> \in Seq(PkArg)  BY EmptySeq
  <2> QED  BY <2>1, Zenon
<1>5. Encodes(Store(buf, 0, Headed(cmd, 0, none)), 4 + Len(none), nil)
  BY <1>3, <1>4, NoneEncodes
<1>6. Len(Headed(cmd, 0, none)) = 4
  <2>1. Len(Headed(cmd, 0, none)) = 4 + Len(none)  BY <1>2, HeadedIs
  <2> QED  BY <2>1, <1>3
<1>7. CASE an = <<>>
  <2>1. Placed(an) = nil  BY <1>4, <1>7 DEF Placed
  <2>2. Encoded(cmd, an) = Headed(cmd, 0, none)  BY <1>3, <1>7, EncodedNone
  <2>3. Encodes(Store(buf, 0, Encoded(cmd, an)), Len(Encoded(cmd, an)), Placed(an))
    <3>1. Encodes(Store(buf, 0, Headed(cmd, 0, none)), 4, nil)
      <4>1. 4 + Len(none) = 4  BY <1>3
      <4> QED  BY <4>1, <1>5
    <3> QED  BY <3>1, <2>1, <2>2, <1>6
  <2> QED  BY <2>1, <2>3, <1>4, <1>7 DEF IsPacketOf
<1>8. ASSUME NEW v, 1 \in 1..Len(an), an[1] = v, 8 + Len(v.data) <= PKT_SIZE_MAX
      PROVE  /\ IsAnswerArg(f, v) /\ Len(v.data) \in Nat
             /\ EncodedArg(v) \in Seq(Byte) /\ Len(EncodedArg(v)) = 4 + Len(v.data)
             /\ <<Argument(v.key, 4, v.data)>> \in Seq(PkArg)
             /\ Encodes(Store(buf, 0, Headed(cmd, 1, EncodedArg(v))), 8 + Len(v.data),
                        <<Argument(v.key, 4, v.data)>>)
  <2>1. IsAnswerArg(f, v)  BY <1>1, <1>8
  <2>2. Len(v.data) \in Nat /\ EncodedArg(v) \in Seq(Byte)
        /\ Len(EncodedArg(v)) = 4 + Len(v.data)
    BY <2>1, EncodedArgIs, <1>2
  <2>3. 4 + Len(none) + 4 + Len(v.data) = 8 + Len(v.data) /\ 4 + Len(none) = 4 /\ 0 + 1 = 1
    BY <2>2, <1>3
  <2>4. /\ Encodes(Store(buf, 0, Headed(cmd, 0 + 1, none \o EncodedArg(v))),
                   4 + Len(none) + 4 + Len(v.data),
                   Append(nil, Argument(v.key, 4 + Len(none), v.data)))
        /\ Append(nil, Argument(v.key, 4 + Len(none), v.data)) \in Seq(PkArg)
    BY <2>1, <2>3, <1>2, <1>5, <1>8, OneMoreEncodes
  <2>5. none \o EncodedArg(v) = EncodedArg(v)  BY <2>2, <1>3
  <2>6. Append(nil, Argument(v.key, 4, v.data)) = <<Argument(v.key, 4, v.data)>>
    BY <1>4
  <2> QED  BY <2>1, <2>2, <2>3, <2>4, <2>5, <2>6
<1>9. ASSUME NEW v, an = <<v>> PROVE IsPacketOf(buf, cmd, an)
  <2>1. 1 \in 1..Len(an) /\ an[1] = v /\ Len(an) = 1  BY <1>9
  <2>2. Encoded(cmd, an) = Headed(cmd, 1, EncodedArg(v))  BY <1>9, EncodedOne
  <2>3. EncodedArg(v) \in Seq(Byte) /\ Len(EncodedArg(v)) = 4 + Len(v.data)
        /\ Len(v.data) \in Nat
    BY <2>1, <1>1, <1>2, EncodedArgIs
  <2>4. Len(Encoded(cmd, an)) = 8 + Len(v.data)
    <3>1. PICK e \in Seq(Byte) : e = EncodedArg(v)  BY <2>3
    <3>2. Len(Headed(cmd, 1, e)) = 4 + Len(e)  BY <1>2, HeadedIs
    <3> QED  BY <3>1, <3>2, <2>2, <2>3
  <2>5. 8 + Len(v.data) <= PKT_SIZE_MAX  BY <2>3, <2>4, <1>2
  <2>6. Placed(an) = <<Argument(v.key, 4, v.data)>>  BY <1>9, PlacedOne
  <2>7. Placed(an) \in Seq(PkArg) /\ Len(Placed(an)) = 1
        /\ Placed(an)[1].key = v.key /\ Placed(an)[1].data = v.data
    BY <2>1, <2>5, <2>6, <1>8 DEF Argument
  <2>8. Encodes(Store(buf, 0, Encoded(cmd, an)), Len(Encoded(cmd, an)), Placed(an))
    BY <2>1, <2>2, <2>4, <2>5, <2>6, <1>8
  <2> QED  BY <2>1, <2>7, <2>8 DEF IsPacketOf
<1>10. ASSUME NEW v, NEW w, an = <<v, w>> PROVE IsPacketOf(buf, cmd, an)
  <2>1. 1 \in 1..Len(an) /\ an[1] = v /\ 2 \in 1..Len(an) /\ an[2] = w /\ Len(an) = 2
    BY <1>10
  <2>2. Encoded(cmd, an) = Headed(cmd, 2, EncodedArg(v) \o EncodedArg(w))
    BY <1>10, EncodedTwo
  <2>3. /\ EncodedArg(v) \in Seq(Byte) /\ Len(EncodedArg(v)) = 4 + Len(v.data)
        /\ Len(v.data) \in Nat
    BY <2>1, <1>1, <1>2, EncodedArgIs
  <2>4. /\ EncodedArg(w) \in Seq(Byte) /\ Len(EncodedArg(w)) = 4 + Len(w.data)
        /\ Len(w.data) \in Nat /\ IsAnswerArg(f, w)
    BY <2>1, <1>1, <1>2, EncodedArgIs
  <2>5. PICK e \in Seq(Byte) : e = EncodedArg(v)  BY <2>3
  <2>6. Len(Encoded(cmd, an)) = 8 + Len(v.data) + 4 + Len(w.data)
    <3>1. PICK x \in Seq(Byte) : x = EncodedArg(w)  BY <2>4
    <3>2. e \o x \in Seq(Byte) /\ Len(e \o x) = Len(e) + Len(x)  BY Joined
    <3>3. Len(Headed(cmd, 2, e \o x)) = 4 + Len(e \o x)  BY <3>2, <1>2, HeadedIs
    <3>4. Len(e) = 4 + Len(v.data) /\ Len(x) = 4 + Len(w.data)
          /\ Len(v.data) \in Nat /\ Len(w.data) \in Nat
      BY <2>3, <2>4, <2>5, <3>1
    <3>5. Len(Headed(cmd, 2, e \o x)) = 8 + Len(v.data) + 4 + Len(w.data)
      <4>1. \A p, q \in Nat : 4 + ((4 + p) + (4 + q)) = 8 + p + 4 + q  OBVIOUS
      <4>2. Len(Headed(cmd, 2, e \o x)) = 4 + (Len(e) + Len(x))  BY <3>2, <3>3
      <4>3. Len(Headed(cmd, 2, e \o x)) = 4 + ((4 + Len(v.data)) + (4 + Len(w.data)))
        BY <4>2, <3>4, Zenon
      <4> QED  BY <4>1, <4>3, <3>4
    <3> QED  BY <3>1, <3>5, <2>2, <2>5
  <2>7. 8 + Len(v.data) + 4 + Len(w.data) <= PKT_SIZE_MAX
        /\ 8 + Len(v.data) <= PKT_SIZE_MAX
    <3>1. Len(v.data) \in Nat /\ Len(w.data) \in Nat  BY <2>3, <2>4
    <3>2. \A x, y \in Nat : 8 + x + 4 + y < PKT_SIZE_MAX =>
            8 + x + 4 + y <= PKT_SIZE_MAX /\ 8 + x <= PKT_SIZE_MAX
      BY <1>2
    <3> QED  BY <3>1, <3>2, <2>6
  <2>8. PICK list \in Seq(PkArg) : list = <<Argument(v.key, 4, v.data)>>
    BY <2>1, <2>7, <1>8
  <2>9. /\ 4 + Len(e) = 4 + 4 + Len(v.data) /\ 4 + Len(e) = 8 + Len(v.data)
        /\ 4 + Len(e) + 4 + Len(w.data) = 8 + Len(v.data) + 4 + Len(w.data) /\ 1 + 1 = 2
    <3>1. Len(v.data) \in Nat /\ Len(w.data) \in Nat /\ Len(e) = 4 + Len(v.data)
      BY <2>3, <2>4, <2>5
    <3> QED  BY <3>1
  <2>10. Encodes(Store(buf, 0, Headed(cmd, 1, e)), 4 + Len(e), list)
    BY <2>1, <2>5, <2>7, <2>8, <2>9, <1>8
  <2>11. /\ Encodes(Store(buf, 0, Headed(cmd, 1 + 1, e \o EncodedArg(w))),
                    4 + Len(e) + 4 + Len(w.data),
                    Append(list, Argument(w.key, 4 + Len(e), w.data)))
         /\ Append(list, Argument(w.key, 4 + Len(e), w.data)) \in Seq(PkArg)
    BY <2>4, <2>7, <2>9, <2>10, <1>2, OneMoreEncodes
  <2>12. Placed(an) = Append(list, Argument(w.key, 4 + Len(e), w.data))
    BY <1>10, <2>8, <2>9, PlacedTwo
  <2>13. /\ Placed(an) \in Seq(PkArg) /\ Len(Placed(an)) = 2
         /\ Placed(an)[1].key = v.key /\ Placed(an)[1].data = v.data
         /\ Placed(an)[2].key = w.key /\ Placed(an)[2].data = w.data
    <3>1. Placed(an) \in Seq(PkArg)  BY <2>11, <2>12
    <3>2. Placed(an) = <<Argument(v.key, 4, v.data),
                         Argument(w.key, 4 + 4 + Len(v.data), w.data)>>
      BY <1>10, PlacedTwo
    <3> QED  BY <3>1, <3>2 DEF Argument
  <2>14. Encodes(Store(buf, 0, Encoded(cmd, an)), Len(Encoded(cmd, an)), Placed(an))
    BY <2>2, <2>5, <2>6, <2>9, <2>11, <2>12
  <2> QED  BY <2>1, <2>13, <2>14 DEF IsPacketOf
<1> QED  BY <1>7, <1>9, <1>10, AnswerIs

-----------------------------------------------------------------------------
(* The command that the module reads *)

Places == [j \in 1..(Len(packet) + 1) |->
             IF j \in 1..Len(packet) THEN packet[j].at ELSE pkt_size]

\* It finds the arguments where they were put.  (Received.at is a recursive function:
\* that there is one is shown by Places, that there is no other by going from
\* argument to argument.)
LEMMA ReceivedIs ==
  ASSUME PkInv, holds = "command"
  PROVE  Received = [cmd |-> Word(pkt_buffer, 0), args |-> ArgsOf(packet), size |-> pkt_size]
<1> DEFINE nr == Word(pkt_buffer, 2)
           Solves(g) ==
             g = [j \in 1..(nr + 1) |->
                    IF j = 1 THEN 4 ELSE g[j - 1] + 4 + Word(pkt_buffer, g[j - 1] + 2)]
           chosen == CHOOSE g : Solves(g)
<1>1. /\ packet \in Seq(PkArg) /\ Len(packet) \in Nat /\ pkt_size \in Nat
      /\ nr = Len(packet)
      /\ pkt_size = IF packet = <<>> THEN 4 ELSE End(packet[Len(packet)])
  <2>1. packet \in Seq(PkArg)  BY DEF PkInv, PkTypeOK, PkArg
  <2>2. pkt_size \in Nat  BY Constants DEF PkInv, PkTypeOK
  <2> QED  BY <2>1, <2>2 DEF PkInv, PacketEncoded, Encodes
<1>2. ASSUME NEW j \in 1..Len(packet)
      PROVE  /\ packet[j] \in PkArg
             /\ packet[j].at = IF j = 1 THEN 4 ELSE End(packet[j - 1])
             /\ Word(pkt_buffer, packet[j].at) = packet[j].key
             /\ Word(pkt_buffer, packet[j].at + 2) = Len(packet[j].data)
             /\ \A n \in 1..Len(packet[j].data) :
                  pkt_buffer[packet[j].at + 3 + n] = packet[j].data[n]
             /\ End(packet[j]) = packet[j].at + 4 + Len(packet[j].data)
             /\ packet[j].at \in Nat /\ packet[j].data \in Seq(Byte)
  <2>1. packet[j] \in PkArg  BY <1>1, ElementOfSeq
  <2> QED  BY <2>1, ArgIs DEF PkInv, PacketEncoded, Encodes
<1>3. ASSUME NEW j \in 1..(Len(packet) + 1), j # 1
      PROVE  /\ j - 1 \in 1..Len(packet) /\ j - 1 \in 1..(Len(packet) + 1)
             /\ Places[j - 1] = packet[j - 1].at
             /\ Places[j] = Places[j - 1] + 4 + Word(pkt_buffer, Places[j - 1] + 2)
  <2>1. j - 1 \in 1..Len(packet) /\ j - 1 \in 1..(Len(packet) + 1)  BY <1>1, <1>3
  <2>2. Places[j - 1] = packet[j - 1].at  BY <2>1 DEF Places
  <2>3. Places[j] = End(packet[j - 1])
    <3>1. CASE j \in 1..Len(packet)
      <4>1. Places[j] = packet[j].at  BY <3>1 DEF Places
      <4> QED  BY <4>1, <3>1, <1>2, <1>3
    <3>2. CASE j \notin 1..Len(packet)
      <4>1. j - 1 = Len(packet) /\ packet # <<>>  BY <3>2, <2>1, <1>1
      <4>2. Places[j] = pkt_size  BY <3>2 DEF Places
      <4> QED  BY <4>1, <4>2, <1>1
    <3> QED  BY <3>1, <3>2
  <2> QED  BY <2>1, <2>2, <2>3, <1>2
<1>4. Places[1] = 4
  <2>1. 1 \in 1..(Len(packet) + 1)  BY <1>1
  <2>2. CASE 1 \in 1..Len(packet)
    <3>1. packet[1].at = 4  BY <2>2, <1>2
    <3> QED  BY <2>1, <2>2, <3>1 DEF Places
  <2>3. CASE 1 \notin 1..Len(packet)
    <3>1. packet = <<>>  BY <2>3, <1>1, EmptySeq
    <3> QED  BY <2>1, <2>3, <3>1, <1>1 DEF Places
  <2> QED  BY <2>2, <2>3
<1>5. Solves(Places)
  <2>1. Places = [j \in 1..(nr + 1) |-> Places[j]]  BY <1>1 DEF Places
  <2>2. \A j \in 1..(nr + 1) :
          Places[j] = IF j = 1 THEN 4
                      ELSE Places[j - 1] + 4 + Word(pkt_buffer, Places[j - 1] + 2)
    BY <1>1, <1>3, <1>4
  <2> HIDE DEF nr
  <2> QED  BY <2>1, <2>2, Zenon
<1>6. Solves(chosen)  BY <1>5
<1>7. Received = [cmd  |-> Word(pkt_buffer, 0),
                  args |-> [j \in 1..nr |->
                              [key  |-> Word(pkt_buffer, chosen[j]),
                               data |-> Bytes(chosen[j] + 4, Word(pkt_buffer, chosen[j] + 2))]],
                  size |-> chosen[nr + 1]]
  BY DEF Received
<1> HIDE DEF chosen
<1>8. \A j \in 1..(Len(packet) + 1) :
        chosen[j] = IF j = 1 THEN 4
                    ELSE chosen[j - 1] + 4 + Word(pkt_buffer, chosen[j - 1] + 2)
  BY <1>1, <1>6
<1> HIDE DEF nr, Solves
<1>9. \A j \in 1..(Len(packet) + 1) : chosen[j] = Places[j]
  <2> DEFINE T == {n \in Nat : n + 1 \in 1..(Len(packet) + 1) => chosen[n + 1] = Places[n + 1]}
  <2>1. 0 \in T
    <3>1. 1 \in 1..(Len(packet) + 1)  BY <1>1
    <3>2. chosen[1] = 4  BY <3>1, <1>8
    <3> QED  BY <3>2, <1>4
  <2>2. ASSUME NEW n \in Nat, n \in T PROVE n + 1 \in T
    <3> SUFFICES ASSUME n + 1 + 1 \in 1..(Len(packet) + 1)
                 PROVE  chosen[n + 1 + 1] = Places[n + 1 + 1]
      OBVIOUS
    <3> DEFINE j == n + 1 + 1
    <3>1. j # 1 /\ j - 1 = n + 1 /\ j \in 1..(Len(packet) + 1)  OBVIOUS
    <3>2. n + 1 \in 1..(Len(packet) + 1)  BY <1>1
    <3>3. chosen[n + 1] = Places[n + 1]  BY <2>2, <3>2
    <3>4. chosen[j] = chosen[j - 1] + 4 + Word(pkt_buffer, chosen[j - 1] + 2)
      BY <3>1, <1>8
    <3>5. Places[j] = Places[j - 1] + 4 + Word(pkt_buffer, Places[j - 1] + 2)
      BY <3>1, <1>3
    <3> HIDE DEF j
    <3>6. chosen[j] = Places[j]  BY <3>1, <3>3, <3>4, <3>5
    <3> QED  BY <3>6 DEF j
  <2>3. Nat \subseteq T
    <3> HIDE DEF T
    <3> QED  BY <2>1, <2>2, EveryNumber
  <2>4. ASSUME NEW j \in 1..(Len(packet) + 1) PROVE chosen[j] = Places[j]
    <3>1. j - 1 \in Nat /\ j - 1 + 1 = j  BY <1>1
    <3> QED  BY <3>1, <2>3
  <2> QED  BY <2>4
<1>10. chosen[Len(packet) + 1] = pkt_size
  <2>1. Len(packet) + 1 \in 1..(Len(packet) + 1) /\ Len(packet) + 1 \notin 1..Len(packet)
    BY <1>1
  <2> QED  BY <2>1, <1>9 DEF Places
<1>11. ASSUME NEW j \in 1..Len(packet)
       PROVE  /\ Word(pkt_buffer, chosen[j]) = packet[j].key
              /\ Bytes(chosen[j] + 4, Word(pkt_buffer, chosen[j] + 2)) = packet[j].data
  <2>1. chosen[j] = packet[j].at
    <3>1. j \in 1..(Len(packet) + 1)  BY <1>1
    <3>2. Places[j] = packet[j].at  BY <3>1 DEF Places
    <3> QED  BY <3>1, <3>2, <1>9
  <2>2. Word(pkt_buffer, chosen[j]) = packet[j].key
        /\ Word(pkt_buffer, chosen[j] + 2) = Len(packet[j].data)
    BY <2>1, <1>2
  <2>3. PICK d \in Seq(Byte) : d = packet[j].data  BY <1>2
  <2>4. PICK a \in Nat : a = packet[j].at  BY <1>2
  <2>5. \A n \in 1..Len(d) : pkt_buffer[a + 3 + n] = d[n]  BY <2>3, <2>4, <1>2
  <2>6. \A n \in 1..Len(d) : a + 4 + n - 1 = a + 3 + n  BY <2>3, <2>4
  <2>7. Bytes(a + 4, Len(d)) = [n \in 1..Len(d) |-> d[n]]  BY <2>5, <2>6 DEF Bytes
  <2>8. d = [n \in 1..Len(d) |-> d[n]]  BY <2>3, LenProperties
  <2> QED  BY <2>1, <2>2, <2>3, <2>4, <2>7, <2>8
<1>12. [j \in 1..nr |->
          [key  |-> Word(pkt_buffer, chosen[j]),
           data |-> Bytes(chosen[j] + 4, Word(pkt_buffer, chosen[j] + 2))]] = ArgsOf(packet)
  BY <1>1, <1>11 DEF ArgsOf
<1> QED  BY <1>1, <1>7, <1>10, <1>12

-----------------------------------------------------------------------------
(* The command that is asked for *)

AddType == [key : 1..(WORD - 1), size : 0..(WORD - 1)]
ArgType == [key : 0..(WORD - 1), data : Seq(Byte)]

\* The data of an argument the code adds.
LEMMA DataIs ==
  ASSUME NEW size \in 0..(WORD - 1)
  PROVE  /\ Data(size) \in Seq(Byte) /\ Len(Data(size)) = size /\ Len(Data(size)) < WORD
         /\ Data(size) = [n \in 1..size |-> n % BYTE]
<1>1. size \in Nat /\ size < WORD /\ size % WORD = size  BY IfConstants
<1>2. Data(size) = [n \in 1..size |-> n % BYTE]  BY <1>1 DEF Data
<1>3. \A n \in 1..size : n % BYTE \in Byte
  <2>1. \A n \in 1..size : n \in Nat  BY <1>1
  <2> QED  BY <2>1, IfConstants
<1>4. [n \in 1..size |-> n % BYTE] \in [1..size -> Byte]  BY <1>3
<1>5. Data(size) \in Seq(Byte) /\ Len(Data(size)) = size  BY <1>1, <1>2, <1>4, BytesAre
<1> QED  BY <1>1, <1>2, <1>5

\* What a function asks for: its key, if it has one, and what it adds.
LEMMA AskedIs ==
  ASSUME NEW f, IsFunction(f)
  PROVE  /\ Asked(f) \in Seq(ArgType)
         /\ Len(Asked(f)) = First(f) + Len(f.adds)
         /\ f.key # Arg.NONE => Asked(f)[1] = [key |-> f.key, data |-> <<>>]
         /\ \A j \in 1..Len(f.adds) :
              /\ Asked(f)[First(f) + j].key = f.adds[j].key
              /\ Asked(f)[First(f) + j].data = Data(f.adds[j].size)
<1> DEFINE rest == [j \in 1..Len(f.adds) |->
                     [key  |-> f.adds[j].key,
                      data |-> [n \in 1..f.adds[j].size |-> n % BYTE]]]
<1>1. f.adds \in Seq(AddType) /\ f.key \in 0..(WORD - 1)  BY FunctionIs DEF AddType
<1>2. ASSUME NEW j \in 1..Len(f.adds)
      PROVE  /\ rest[j].key = f.adds[j].key
             /\ rest[j].data = Data(f.adds[j].size)
             /\ rest[j] \in ArgType
  <2>1. f.adds[j] \in AddType  BY <1>1, ElementOfSeq
  <2>2. f.adds[j].key \in 0..(WORD - 1) /\ f.adds[j].size \in 0..(WORD - 1)
    BY <2>1, IfConstants DEF AddType
  <2>3. Data(f.adds[j].size) \in Seq(Byte)
        /\ Data(f.adds[j].size) = [n \in 1..f.adds[j].size |-> n % BYTE]
    BY <2>2, DataIs
  <2> QED  BY <2>2, <2>3 DEF ArgType
<1>3. Len(f.adds) \in Nat  BY <1>1
<1>4. rest \in Seq(ArgType) /\ Len(rest) = Len(f.adds)
  <2>1. rest = [j \in 1..Len(f.adds) |-> rest[j]]  OBVIOUS
  <2>2. rest \in [1..Len(f.adds) -> ArgType]
    <3> HIDE DEF rest
    <3> QED  BY <1>2, <2>1
  <2> HIDE DEF rest
  <2> QED  BY <1>3, <2>2
<1>5. Asked(f) = (IF f.key = Arg.NONE THEN <<>> ELSE <<[key |-> f.key, data |-> <<>>]>>)
                   \o rest
  BY DEF Asked
<1> HIDE DEF rest
<1>6. CASE f.key = Arg.NONE
  <2>1. Asked(f) = rest  BY <1>4, <1>5, <1>6
  <2>2. First(f) = 0 /\ \A j \in 1..Len(f.adds) : 0 + j = j  BY <1>3, <1>6 DEF First
  <2> QED  BY <2>1, <2>2, <1>2, <1>3, <1>4, <1>6
<1>7. CASE f.key # Arg.NONE
  <2> DEFINE one == [key |-> f.key, data |-> <<>>]
  <2>1. one \in ArgType
    <3>1. <<>> \in Seq(Byte)  BY EmptySeq
    <3> QED  BY <1>1, <3>1 DEF ArgType
  <2>2. Asked(f) = <<one>> \o rest  BY <1>5, <1>7
  <2>3. First(f) = 1  BY <1>7 DEF First
  <2> HIDE DEF one
  <2>4. <<one>> \in Seq(ArgType) /\ Len(<<one>>) = 1 /\ <<one>>[1] = one  BY <2>1
  <2>5. <<one>> \o rest \in Seq(ArgType) /\ Len(<<one>> \o rest) = 1 + Len(rest)
    BY <1>4, <2>4
  <2>6. (<<one>> \o rest)[1] = one  BY <1>4, <2>4
  <2>7. ASSUME NEW j \in 1..Len(f.adds) PROVE (<<one>> \o rest)[1 + j] = rest[j]
    <3>1. 1 + j \in 1..(1 + Len(rest)) /\ ~(1 + j <= 1) /\ 1 + j - 1 = j  BY <1>3, <1>4
    <3> QED  BY <1>4, <2>4, <3>1
  <2>8. Asked(f)[1] = [key |-> f.key, data |-> <<>>]  BY <2>2, <2>6 DEF one
  <2> QED  BY <2>2, <2>3, <2>5, <2>7, <2>8, <1>2, <1>4
<1> QED  BY <1>6, <1>7

\* A packet that has got all of it is what was asked for.
LEMMA AllAsked ==
  ASSUME NEW f, IsFunction(f), NEW p \in Seq(PkArg), Len(p) = First(f) + Len(f.adds),
         \A j \in 1..Len(p) : p[j].key = Asked(f)[j].key /\ p[j].data = Asked(f)[j].data
  PROVE  ArgsOf(p) = Asked(f)
<1>1. /\ ArgsOf(p) \in Seq(ArgType) /\ Len(ArgsOf(p)) = Len(p)
      /\ \A j \in 1..Len(p) : ArgsOf(p)[j].key = p[j].key /\ ArgsOf(p)[j].data = p[j].data
  BY ArgsOfIs DEF ArgType
<1>2. Asked(f) \in Seq(ArgType) /\ Len(Asked(f)) = Len(p)  BY AskedIs
<1>3. ASSUME NEW j \in 1..Len(p) PROVE ArgsOf(p)[j] = Asked(f)[j]
  <2>1. ArgsOf(p)[j] \in ArgType /\ Asked(f)[j] \in ArgType
    BY <1>1, <1>2, <1>3, ElementOfSeq
  <2>2. \A a, b \in ArgType : a.key = b.key /\ a.data = b.data => a = b
    BY DEF ArgType
  <2> QED  BY <2>1, <2>2, <1>1
<1>4. Len(ArgsOf(p)) = Len(Asked(f)) /\ \A j \in 1..Len(ArgsOf(p)) : ArgsOf(p)[j] = Asked(f)[j]
  BY <1>1, <1>2, <1>3
<1> HIDE DEF ArgType
<1> QED  BY <1>1, <1>2, <1>4, SeqEqual

\* So the module, when the packet is sent, reads what was asked for.
LEMMA CommandArrives ==
  ASSUME IfInv, pc = "exchange"
  PROVE  Received.cmd = fn.cmd /\ Received.args = Asked(fn) /\ Received.size = pkt_size
<1>1. /\ holds = "command" /\ Word(pkt_buffer, 0) = fn.cmd /\ adds = <<>>
      /\ Len(packet) = First(fn) + Done
      /\ \A j \in 1..Len(packet) :
           packet[j].key = Asked(fn)[j].key /\ packet[j].data = Asked(fn)[j].data
  BY DEF IfInv, Tracked, Asking
<1>2. IsFunction(fn) /\ PkInv  BY DEF IfInv, Tracked, Typed
<1>3. packet \in Seq(PkArg)  BY <1>2 DEF PkInv, PkTypeOK, PkArg
<1>4. Done = Len(fn.adds)
  <2>1. fn.adds \in Seq(AddType)  BY <1>2, FunctionIs DEF AddType
  <2>2. Len(fn.adds) \in Nat /\ Len(adds) = 0  BY <1>1, <2>1
  <2> QED  BY <2>2 DEF Done
<1>5. ArgsOf(packet) = Asked(fn)  BY <1>1, <1>2, <1>3, <1>4, AllAsked
<1>6. Received = [cmd |-> Word(pkt_buffer, 0), args |-> ArgsOf(packet), size |-> pkt_size]
  BY <1>1, <1>2, ReceivedIs
<1> QED  BY <1>1, <1>5, <1>6

-----------------------------------------------------------------------------
(* Steps that build a command and send it *)

\* bmlite_add_arg leaves the command alone.
LEMMA CommandKept ==
  ASSUME NEW buf \in [Offsets -> Byte], NEW at \in 4..PKT_SIZE_MAX,
         NEW key \in 0..(WORD - 1), NEW data \in Seq(Byte), Len(data) < WORD
  PROVE  Word(WithArg(buf, at, key, data), 0) = Word(buf, 0)
<1>1. PICK nr \in 0..(WORD - 1) : nr = (Word(buf, 2) + 1) % WORD
  <2>1. 2 \in 0..(PKT_SIZE_MAX + 6)  BY Constants
  <2>2. Word(buf, 2) \in 0..(WORD - 1)  BY <2>1, WordOfBytes
  <2>3. \A n \in Nat : n % WORD \in 0..(WORD - 1)  BY Constants
  <2>4. Word(buf, 2) + 1 \in Nat  BY <2>2, Constants
  <2> QED  BY <2>3, <2>4
<1>2. PICK m \in 0..(WORD - 1) : m = Len(data)  BY Constants
<1>3. /\ Field(nr) \in Seq(Byte) /\ Field(key) \in Seq(Byte) /\ Field(m) \in Seq(Byte)
  BY FieldIs
<1>4. /\ 0 \in 0..(PKT_SIZE_MAX + 6) /\ 0 + 1 < 2 /\ 0 + 1 < at /\ 0 + 1 < at + 2
      /\ 0 + 1 < at + 4 /\ at \in Nat /\ at + 2 \in Nat /\ at + 4 \in Nat /\ 2 \in Nat
  BY Constants
<1> DEFINE b1 == Store(buf, 2, Field(nr))
           b2 == Store(b1, at, Field(key))
           b3 == Store(b2, at + 2, Field(m))
           b4 == Store(b3, at + 4, data)
<1>5. WithArg(buf, at, key, data) = b4  BY <1>1, <1>2 DEF WithArg
<1>6. b1 \in [Offsets -> Byte] /\ Word(b1, 0) = Word(buf, 0)
  BY <1>3, <1>4, StoreIs, WordKept
<1> HIDE DEF b1
<1>7. b2 \in [Offsets -> Byte] /\ Word(b2, 0) = Word(b1, 0)
  BY <1>3, <1>4, <1>6, StoreIs, WordKept
<1> HIDE DEF b2
<1>8. b3 \in [Offsets -> Byte] /\ Word(b3, 0) = Word(b2, 0)
  BY <1>3, <1>4, <1>7, StoreIs, WordKept
<1> HIDE DEF b3
<1>9. Word(b4, 0) = Word(b3, 0)  BY <1>4, <1>8, WordKept
<1> QED  BY <1>5, <1>6, <1>7, <1>8, <1>9

\* What bmlite_init_cmd leaves in the buffer.
LEMMA CommandBegun ==
  ASSUME NEW cmd \in 0..(WORD - 1), NEW key \in 0..(WORD - 1),
         pkt_buffer \in [Offsets -> Byte], InitCmd(cmd, key)
  PROVE  Word(pkt_buffer', 0) = cmd
<1> DEFINE b1    == Store(pkt_buffer, 0, Field(cmd))
           empty == Store(b1, 2, Field(0))
<1>1. /\ 0 \in Nat /\ 2 \in Nat /\ 0 \in 0..(WORD - 1) /\ 0 \in 0..(PKT_SIZE_MAX + 6)
      /\ 0 + 1 < 2 /\ 4 \in 4..PKT_SIZE_MAX
  BY Constants
<1>2. b1 \in [Offsets -> Byte] /\ Word(b1, 0) = cmd
  BY <1>1, FieldIs, StoreIs, WordStored
<1> HIDE DEF b1
<1>3. empty \in [Offsets -> Byte] /\ Word(empty, 0) = cmd
  BY <1>1, <1>2, FieldIs, StoreIs, WordKept
<1>4. pkt_buffer' = empty \/ pkt_buffer' = WithArg(empty, 4, key, <<>>)
  BY DEF InitCmd, b1
<1> HIDE DEF empty
<1>5. Word(WithArg(empty, 4, key, <<>>), 0) = Word(empty, 0)
  <2>1. \E none \in Seq(Byte) : none = <<>> /\ Len(none) < WORD
    <3>1. <<>> \in Seq(Byte) /\ Len(<<>>) = 0 /\ 0 < WORD  BY EmptySeq, Constants
    <3>2. Len(<<>>) < WORD  BY <3>1
    <3> QED  BY <3>1, <3>2, Zenon
  <2>2. PICK none \in Seq(Byte) : none = <<>> /\ Len(none) < WORD  BY <2>1
  <2>3. Word(WithArg(empty, 4, key, none), 0) = Word(empty, 0)
    BY <1>1, <1>3, <2>2, CommandKept
  <2> QED  BY <2>2, <2>3
<1> QED  BY <1>3, <1>4, <1>5

\* While a function is running, nothing is said of what it returns, and what it hands
\* out is nothing.
LEMMA NothingYet ==
  ASSUME ret = "NONE", out = <<>>, IsFunction(fn)
  PROVE  AnswerHonest /\ CopyFits /\ StatusReadAsCount
<1>1. fn.room # NULL => Len(out) <= fn.room
  <2>1. Len(out) = 0 /\ (fn.room # NULL => fn.room \in Nat)  BY FunctionIs
  <2> QED  BY <2>1
<1> QED  BY <1>1 DEF AnswerHonest, CopyFits, StatusReadAsCount

\* Nor of what it does not return.
LEMMA FailureReturned ==
  ASSUME ret # "OK", out = <<>>, IsFunction(fn)
  PROVE  AnswerHonest /\ CopyFits /\ StatusReadAsCount
<1>1. fn.room # NULL => Len(out) <= fn.room
  <2>1. Len(out) = 0 /\ (fn.room # NULL => fn.room \in Nat)  BY FunctionIs
  <2> QED  BY <2>1
<1> QED  BY <1>1 DEF AnswerHonest, CopyFits, StatusReadAsCount

\* A call is one of the packet functions and begins a command.
LEMMA CallStep ==
  ASSUME IfInv, calls < Len(Functions), NEW f \in Functions[calls + 1], Call(f)
  PROVE  PkNext /\ Tracked'
<1>1. IsFunction(f) /\ calls \in Nat
  <2>1. calls \in Nat  BY DEF IfInv, Tracked, Typed
  <2>2. Len(Functions) \in Nat
        /\ \A n \in 1..Len(Functions) : \A x \in Functions[n] : IsFunction(x)
    BY IfAssumption
  <2>3. calls + 1 \in 1..Len(Functions)  BY <2>1, <2>2
  <2> QED  BY <2>1, <2>2, <2>3
<1>2. f.cmd \in 0..(WORD - 1) /\ f.key \in 0..(WORD - 1) /\ f.adds \in Seq(AddType)
  BY <1>1, FunctionIs DEF AddType
<1>3. InitCmd(f.cmd, f.key)  BY DEF Call
<1>4. PkNext  BY <1>2, <1>3 DEF PkNext
<1>5. /\ pc = "idle" /\ com = "NONE" /\ bep_result \in Byte
      /\ phy_rx_timeout = PHY_RX_TIMEOUT /\ pkt_buffer \in [Offsets -> Byte]
  BY DEF Call, IfInv, Tracked, Typed, IfTypeOK, Quiet, PkInv, PkTypeOK
<1>6. /\ fn' = f /\ adds' = f.adds /\ com' = "NONE" /\ ret' = "NONE" /\ out' = <<>>
      /\ sent' = <<>> /\ calls' = calls + 1 /\ bep_result' = bep_result
      /\ pc' = IF f.adds = <<>> THEN "exchange" ELSE "build"
      /\ phy_rx_timeout' = IF f.wait = NoWait THEN PHY_RX_TIMEOUT ELSE f.wait
  BY <1>5 DEF Call
<1>7. /\ NotWalking' /\ holds' = "command" /\ Word(pkt_buffer', 0) = f.cmd
      /\ \/ f.key = 0 /\ packet' = <<>>
         \/ f.key # 0 /\ packet' = <<Argument(f.key, 4, <<>>)>>
  <2>1. Word(pkt_buffer', 0) = f.cmd  BY <1>2, <1>3, <1>5, CommandBegun
  <2> QED  BY <2>1, <1>3 DEF InitCmd, NotWalking, walkVars
<1>8. Typed'
  BY <1>1, <1>2, <1>5, <1>6 DEF Typed, IfTypeOK, AddType
<1>9. Running' /\ Quiet' /\ Answered' /\ StatusTaken'
  BY <1>6 DEF Running, Quiet, Answered, StatusTaken
<1>10. Asking'
  <2>1. Len(f.adds) \in Nat /\ Done' = 0
    <3>1. Len(f.adds) \in Nat  BY <1>2
    <3> QED  BY <3>1, <1>6 DEF Done
  <2>2. \A j \in 1..Len(f.adds) : f.adds[j] = f.adds[0 + j]  BY <2>1
  <2>3. /\ Len(packet') = First(f)
        /\ \A j \in 1..Len(packet') :
             packet'[j].key = Asked(f)[j].key /\ packet'[j].data = Asked(f)[j].data
    <3>1. CASE f.key = 0 /\ packet' = <<>>
      BY <3>1, ArgValues DEF First
    <3>2. CASE f.key # 0 /\ packet' = <<Argument(f.key, 4, <<>>)>>
      <4>1. Asked(f)[1] = [key |-> f.key, data |-> <<>>] /\ First(f) = 1
        BY <3>2, <1>1, ArgValues, AskedIs DEF First
      <4>2. Len(packet') = 1 /\ packet'[1].key = f.key /\ packet'[1].data = <<>>
        BY <3>2 DEF Argument
      <4> QED  BY <4>1, <4>2
    <3> QED  BY <3>1, <3>2, <1>7
  <2>4. First(f) = First(f) + 0  BY DEF First
  <2>5. Len(f.adds) <= Len(f.adds)  BY <2>1
  <2>6. pc' = "build" <=> f.adds # <<>>  BY <1>6
  <2> QED  BY <1>6, <1>7, <2>1, <2>2, <2>3, <2>4, <2>5, <2>6 DEF Asking
<1>11. SentAsAsked'
  <2>1. Len(sent') = 0 /\ ret' # "OK"  BY <1>6
  <2> QED  BY <2>1 DEF SentAsAsked
<1>12. (AnswerHonest /\ CopyFits /\ StatusReadAsCount)'
  <2>1. (ret = "NONE" /\ out = <<>> /\ IsFunction(fn))'  BY <1>1, <1>6
  <2> QED  BY <2>1, NothingYet, PTL
<1> QED  BY <1>4, <1>8, <1>9, <1>10, <1>11, <1>12 DEF Tracked

\* What a step of a running function that does not return leaves as it is.
LEMMA KeepsRunning ==
  ASSUME IfInv, pc # "idle", pc' # "idle", ret' = ret, out' = out, fn' = fn,
         calls' = calls, phy_rx_timeout' = phy_rx_timeout
  PROVE  /\ ret' = "NONE" /\ Running' /\ Quiet'
         /\ IsFunction(fn') /\ calls' \in Nat
         /\ phy_rx_timeout' = IF pc' # "idle" /\ fn'.wait # NoWait THEN fn'.wait
                                                                   ELSE PHY_RX_TIMEOUT
         /\ (AnswerHonest /\ CopyFits /\ StatusReadAsCount)'
<1>1. ret = "NONE" /\ out = <<>> /\ IsFunction(fn) /\ calls \in Nat
      /\ phy_rx_timeout = IF pc # "idle" /\ fn.wait # NoWait THEN fn.wait
                                                            ELSE PHY_RX_TIMEOUT
  BY DEF IfInv, Tracked, Running, Typed, IfTypeOK
<1>2. (ret = "NONE" /\ out = <<>> /\ IsFunction(fn))'  BY <1>1
<1>3. (AnswerHonest /\ CopyFits /\ StatusReadAsCount)'  BY <1>2, NothingYet, PTL
<1>4. Running' /\ Quiet'  BY <1>2 DEF Running, Quiet
<1> QED  BY <1>1, <1>2, <1>3, <1>4

\* What returning leaves behind, whatever the function has done.
LEMMA Returns ==
  ASSUME IfInv, NEW r, Return(r), fn' = fn, calls' = calls, NotWalking',
         r \in {"OK", "IO_ERROR", "NO_MEMORY", "INVALID_ARGUMENT"}, bep_result' \in Byte
  PROVE  Typed' /\ Running' /\ Quiet' /\ Asking' /\ Answered' /\ StatusTaken'
<1>1. pc' = "idle" /\ ret' = r /\ adds' = <<>> /\ com' = "NONE"
      /\ phy_rx_timeout' = PHY_RX_TIMEOUT
  BY DEF Return, TimeoutAfter
<1>2. IsFunction(fn') /\ calls' \in Nat  BY DEF IfInv, Tracked, Typed
<1>3. adds' \in Seq(AddType)  BY <1>1, EmptySeq
<1>4. Typed'  BY <1>1, <1>2, <1>3 DEF Typed, IfTypeOK, AddType
<1> QED  BY <1>1, <1>4 DEF Running, Quiet, Asking, Answered, StatusTaken

\* One more argument, or the end of the function if there is no room for it.
LEMMA BuildStep ==
  ASSUME IfInv, Build
  PROVE  PkNext /\ Tracked'
<1>1. /\ pc = "build" /\ adds # <<>> /\ adds \in Seq(AddType) /\ IsFunction(fn)
      /\ ret = "NONE" /\ out = <<>> /\ sent = <<>> /\ com = "NONE" /\ bep_result \in Byte
      /\ NotWalking /\ holds = "command" /\ Word(pkt_buffer, 0) = fn.cmd
      /\ Len(adds) <= Len(fn.adds)
      /\ \A j \in 1..Len(adds) : adds[j] = fn.adds[Done + j]
      /\ Len(packet) = First(fn) + Done
      /\ \A j \in 1..Len(packet) :
           packet[j].key = Asked(fn)[j].key /\ packet[j].data = Asked(fn)[j].data
  BY DEF Build, IfInv, Tracked, Typed, IfTypeOK, Running, Asking, AddType
<1>2. /\ fn.adds \in Seq(AddType) /\ Len(fn.adds) \in Nat /\ Len(adds) \in Nat \ {0}
      /\ Head(adds) = adds[1] /\ adds[1] \in AddType
      /\ Tail(adds) \in Seq(AddType) /\ Len(Tail(adds)) = Len(adds) - 1
      /\ \A j \in 1..Len(Tail(adds)) : Tail(adds)[j] = adds[j + 1]
      /\ Done \in Nat
  <2>1. fn.adds \in Seq(AddType)  BY <1>1, FunctionIs DEF AddType
  <2>2. Len(adds) \in Nat \ {0}  BY <1>1, EmptySeq
  <2>3. /\ Head(adds) = adds[1] /\ adds[1] \in AddType
        /\ Tail(adds) \in Seq(AddType) /\ Len(Tail(adds)) = Len(adds) - 1
        /\ \A j \in 1..Len(Tail(adds)) : Tail(adds)[j] = adds[j + 1]
    BY <1>1, <2>2, HeadTailProperties
  <2>4. Len(fn.adds) \in Nat  BY <2>1
  <2> QED  BY <1>1, <2>1, <2>2, <2>3, <2>4 DEF Done
<1>3. PICK key \in 1..(WORD - 1) : key = adds[1].key  BY <1>2 DEF AddType
<1>4. PICK size \in 0..(WORD - 1) : size = adds[1].size  BY <1>2 DEF AddType
<1>5. PICK data \in Seq(Byte) : data = Data(size) /\ Len(data) < WORD  BY DataIs
<1>6. AddArg(key, data)  BY <1>2, <1>3, <1>4, <1>5 DEF Build
<1>7. PkNext  BY <1>5, <1>6 DEF PkNext
<1>8. /\ fn' = fn /\ calls' = calls /\ bep_result' = bep_result /\ out' = out /\ sent' = sent
      /\ NotWalking' /\ holds' = "command"
  BY <1>1, <1>6 DEF Build, AddArg, NotWalking, walkVars
<1>9. SentAsAsked' \/ ret' = "OK"
  <2>1. Len(sent') = 0  BY <1>1, <1>8
  <2> QED  BY <2>1 DEF SentAsAsked
<1>10. CASE result' = "NO_MEMORY"
  <2>1. Return("NO_MEMORY")  BY <1>10 DEF Build, GivesUp
  <2>2. Typed' /\ Running' /\ Quiet' /\ Asking' /\ Answered' /\ StatusTaken'
    BY <2>1, <1>1, <1>8, Returns
  <2>3. ret' = "NO_MEMORY"  BY <2>1 DEF Return
  <2>4. (ret # "OK" /\ out = <<>> /\ IsFunction(fn))'  BY <2>3, <1>1, <1>8
  <2>5. (AnswerHonest /\ CopyFits /\ StatusReadAsCount)'  BY <2>4, FailureReturned, PTL
  <2> QED  BY <2>2, <2>4, <2>5, <1>7, <1>9 DEF Tracked
<1>11. CASE result' = "OK"
  <2>1. /\ adds' = Tail(adds) /\ pc' = IF adds' = <<>> THEN "exchange" ELSE "build"
        /\ ret' = ret /\ phy_rx_timeout' = phy_rx_timeout /\ com' = com
    BY <1>11 DEF Build, GivesUp, KeepRunning
  <2>2. /\ pkt_buffer' = WithArg(pkt_buffer, pkt_size, key, data)
        /\ packet' = Append(packet, Argument(key, pkt_size, data))
    BY <1>6, <1>11 DEF AddArg
  <2>3. pc' # "idle"  BY <2>1
  <2>4. /\ ret' = "NONE" /\ Running' /\ Quiet'
        /\ IsFunction(fn') /\ calls' \in Nat
        /\ phy_rx_timeout' = IF pc' # "idle" /\ fn'.wait # NoWait THEN fn'.wait
                                                                  ELSE PHY_RX_TIMEOUT
        /\ (AnswerHonest /\ CopyFits /\ StatusReadAsCount)'
    BY <2>1, <2>3, <1>1, <1>8, KeepsRunning
  <2>5. Typed'
    BY <2>1, <2>4, <1>1, <1>2, <1>8 DEF Typed, IfTypeOK, AddType
  <2>6. Answered' /\ StatusTaken'  BY <2>1 DEF Answered, StatusTaken
  <2>7. Asking'
    <3>1. packet \in Seq(PkArg) /\ pkt_buffer \in [Offsets -> Byte]
          /\ pkt_size \in 4..PKT_SIZE_MAX
      <4>1. packet \in Seq(PkArg) /\ pkt_buffer \in [Offsets -> Byte]
            /\ pkt_size \in 0..PKT_SIZE_MAX /\ Counted
        BY DEF IfInv, PkInv, PkTypeOK, PkArg
      <4>2. Len(packet) \in Nat /\ 4 + 4 * Len(packet) <= pkt_size
        BY <4>1, <1>1 DEF Counted
      <4> QED  BY <4>1, <4>2, Constants
    <3>2. Word(pkt_buffer', 0) = fn.cmd
      <4>1. key \in 0..(WORD - 1)  BY Constants
      <4> QED  BY <4>1, <3>1, <2>2, <1>1, <1>5, CommandKept
    <3>3. Len(adds') = Len(adds) - 1 /\ Done' = Done + 1
      <4>1. Len(adds') = Len(adds) - 1  BY <2>1, <1>2
      <4>2. Done' = Len(fn.adds) - (Len(adds) - 1)  BY <4>1, <1>8 DEF Done
      <4> QED  BY <4>1, <4>2, <1>2 DEF Done
    <3>4. ASSUME NEW j \in 1..Len(adds') PROVE adds'[j] = fn.adds[Done' + j]
      <4>1. j + 1 \in 1..Len(adds) /\ Done + (j + 1) = Done + 1 + j  BY <3>3, <1>2
      <4>2. adds'[j] = adds[j + 1]  BY <2>1, <1>2
      <4>3. adds[j + 1] = fn.adds[Done + (j + 1)]  BY <4>1, <1>1
      <4> QED  BY <4>1, <4>2, <4>3, <3>3
    <3>5. Len(packet') = First(fn) + Done' /\ Len(packet') = Len(packet) + 1
      <4>1. Len(packet') = Len(packet) + 1 /\ First(fn) \in Nat
        BY <2>2, <3>1 DEF First
      <4> QED  BY <4>1, <3>3, <1>1, <1>2
    <3>6. ASSUME NEW j \in 1..Len(packet')
          PROVE  packet'[j].key = Asked(fn)[j].key /\ packet'[j].data = Asked(fn)[j].data
      <4>1. CASE j \in 1..Len(packet)
        <5>1. packet'[j] = packet[j]  BY <4>1, <2>2, <3>1
        <5> QED  BY <5>1, <4>1, <1>1
      <4>2. CASE j \notin 1..Len(packet)
        <5>1. Len(packet) \in Nat /\ First(fn) \in Nat  BY <3>1 DEF First
        <5>2. j = Len(packet) + 1 /\ j = First(fn) + (Done + 1)
          BY <5>1, <4>2, <3>5, <1>1, <1>2
        <5>3. packet'[j] = Argument(key, pkt_size, data)  BY <5>2, <2>2, <3>1
        <5>4. 1 \in 1..Len(adds) /\ Done + 1 \in 1..Len(fn.adds)
          BY <1>1, <1>2 DEF Done
        <5>5. adds[1] = fn.adds[Done + 1]  BY <5>4, <1>1
        <5>6. /\ Asked(fn)[First(fn) + (Done + 1)].key = fn.adds[Done + 1].key
              /\ Asked(fn)[First(fn) + (Done + 1)].data = Data(fn.adds[Done + 1].size)
          BY <5>4, <1>1, AskedIs
        <5> QED  BY <5>2, <5>3, <5>5, <5>6, <1>3, <1>4, <1>5 DEF Argument
      <4> QED  BY <4>1, <4>2
    <3>7. Len(adds') <= Len(fn.adds)  BY <3>3, <1>1, <1>2
    <3>8. pc' = "build" <=> adds' # <<>>  BY <2>1
    <3> QED
      BY <1>1, <1>8, <2>1, <3>2, <3>4, <3>5, <3>6, <3>7, <3>8 DEF Asking
  <2> QED  BY <2>4, <2>5, <2>6, <2>7, <1>7, <1>9 DEF Tracked
<1> QED  BY <1>6, <1>10, <1>11 DEF AddArg

\* A failed send is nothing to HcpPacket, and what arrived is what was asked.
LEMMA SendFailsStep ==
  ASSUME IfInv, NEW arrived \in BOOLEAN, SendFails("IO_ERROR", arrived)
  PROVE  UNCHANGED pkVars /\ Tracked'
<1>1. /\ pc = "exchange" /\ UNCHANGED pkVars /\ UNCHANGED <<fn, calls, bep_result, out, answer>>
      /\ Return("IO_ERROR")
      /\ sent' = IF arrived THEN Append(sent, Received) ELSE sent
  BY DEF SendFails
<1>2. /\ sent = <<>> /\ NotWalking /\ bep_result \in Byte /\ IsFunction(fn)
      /\ ret = "NONE" /\ out = <<>>
  BY <1>1 DEF IfInv, Tracked, Asking, Typed, IfTypeOK, Running
<1>3. NotWalking'  BY <1>1, <1>2 DEF NotWalking, pkVars, walkVars
<1>4. Typed' /\ Running' /\ Quiet' /\ Asking' /\ Answered' /\ StatusTaken'
  BY <1>1, <1>2, <1>3, Returns
<1>5. ret' = "IO_ERROR"  BY <1>1 DEF Return
<1>6. (ret # "OK" /\ out = <<>> /\ IsFunction(fn))'  BY <1>1, <1>2, <1>5
<1>7. (AnswerHonest /\ CopyFits /\ StatusReadAsCount)'  BY <1>6, FailureReturned, PTL
<1>8. SentAsAsked'
  <2>1. sent' = <<>> \/ sent' = <<Received>>  BY <1>1, <1>2
  <2>2. CASE sent' = <<>>
    <3>1. Len(sent') = 0  BY <2>2
    <3> QED  BY <3>1, <1>5 DEF SentAsAsked
  <2>3. CASE sent' = <<Received>>
    <3>1. Len(sent') = 1 /\ sent'[1] = Received  BY <2>3
    <3>2. Received.cmd = fn.cmd /\ Received.args = Asked(fn) /\ Received.size = pkt_size
      BY <1>1, CommandArrives
    <3>3. fn' = fn /\ pkt_size' = pkt_size /\ Asked(fn') = Asked(fn)  BY <1>1 DEF pkVars
    <3>4. \A n \in 1..Len(sent') : n = 1  BY <3>1
    <3> QED  BY <3>1, <3>2, <3>3, <3>4, <1>5 DEF SentAsAsked
  <2> QED  BY <2>1, <2>2, <2>3
<1> QED  BY <1>1, <1>4, <1>6, <1>7, <1>8 DEF Tracked

-----------------------------------------------------------------------------
(* Receptions *)

\* A packet where its arguments may be anywhere, as HcpPacket lets it come.
LEMMA PacketComes ==
  ASSUME NEW list \in Seq(PkArg)
  PROVE  list \in Seq([key : 0..(WORD - 1), at : Nat, data : Seq(Byte)])
<1> DEFINE T == [key : 0..(WORD - 1), at : Nat, data : Seq(Byte)]
<1>1. PkArg \subseteq T  BY Constants DEF PkArg
<1>2. \A S1, S2 : S1 \subseteq S2 => Seq(S1) \subseteq Seq(S2)  OBVIOUS
<1> HIDE DEF T
<1>3. list \in Seq(T)  BY <1>1, <1>2
<1> QED  BY <1>3 DEF T

\* The whole answer has come.
LEMMA ReceiveWholeStep ==
  ASSUME IfInv, NEW an \in Answers(fn), ReceiveWhole(an)
  PROVE  PkNext /\ Tracked'
<1>1. PICK bytes : bytes = Encoded(fn.cmd, an)  OBVIOUS
<1>2. PICK list : list = Placed(an)  OBVIOUS
<1>3. /\ pc = "exchange" /\ Len(bytes) < PKT_SIZE_MAX
      /\ ReplyArrives(Store(pkt_buffer, 0, bytes), Len(bytes), list)
      /\ sent' = Append(sent, Received) /\ answer' = an /\ com' = "OK" /\ pc' = "status"
      /\ ret' = ret /\ phy_rx_timeout' = phy_rx_timeout
      /\ UNCHANGED <<fn, calls, adds, bep_result, out>>
  BY <1>1, <1>2 DEF ReceiveWhole, KeepRunning
<1>4. IsFunction(fn) /\ fn.cmd \in 0..(WORD - 1) /\ pkt_buffer \in [Offsets -> Byte]
      /\ sent = <<>> /\ bep_result \in Byte /\ adds \in Seq(AddType)
  BY <1>3, FunctionIs DEF IfInv, PkInv, PkTypeOK, Tracked, Typed, IfTypeOK, Asking, AddType
<1>5. /\ list \in Seq(PkArg) /\ Len(list) = Len(an)
      /\ \A j \in 1..Len(an) : list[j].key = an[j].key /\ list[j].data = an[j].data
      /\ Encodes(Store(pkt_buffer, 0, bytes), Len(bytes), list)
  <2>1. IsPacketOf(pkt_buffer, fn.cmd, an)  BY <1>1, <1>3, <1>4, AnswerEncodes
  <2> QED  BY <2>1, <1>1, <1>2 DEF IsPacketOf
<1>6. PkNext
  <2>1. bytes \in Seq(Byte)  BY <1>1, <1>4, EncodedIs
  <2>2. Store(pkt_buffer, 0, bytes) \in [Offsets -> Byte]  BY <2>1, <1>4, StoredFirst
  <2>3. Len(bytes) \in 0..(PKT_SIZE_MAX - 1)  BY <2>1, <1>3, Constants
  <2>4. list \in Seq([key : 0..(WORD - 1), at : Nat, data : Seq(Byte)])
    BY <1>5, PacketComes
  <2>5. PICK buf \in [Offsets -> Byte] : buf = Store(pkt_buffer, 0, bytes)  BY <2>2
  <2>6. PICK size \in 0..(PKT_SIZE_MAX - 1) : size = Len(bytes)  BY <2>3
  <2>7. Encodes(buf, size, list) /\ ReplyArrives(buf, size, list)
    BY <1>3, <1>5, <2>5, <2>6
  <2> QED  BY <2>4, <2>7 DEF PkNext
<1>7. /\ ret' = "NONE" /\ Running' /\ Quiet' /\ IsFunction(fn') /\ calls' \in Nat
      /\ phy_rx_timeout' = IF pc' # "idle" /\ fn'.wait # NoWait THEN fn'.wait
                                                                ELSE PHY_RX_TIMEOUT
      /\ (AnswerHonest /\ CopyFits /\ StatusReadAsCount)'
  BY <1>3, KeepsRunning
<1>8. /\ NotWalking' /\ holds' = "reply" /\ packet' = list
  BY <1>3 DEF ReplyArrives, NotWalking, walkVars
<1>9. sent' = <<Received>> /\ Len(sent') = 1 /\ sent'[1] = Received  BY <1>3, <1>4
<1>10. Typed'  BY <1>3, <1>4, <1>7 DEF Typed, IfTypeOK, AddType
<1>11. Asking' /\ StatusTaken'  BY <1>3 DEF Asking, StatusTaken
<1>12. Answered'
  <2>1. IsAnswer'  BY <1>3, <1>5, <1>8 DEF IsAnswer
  <2>2. answer' \in Answers(fn')  BY <1>3
  <2> QED  BY <2>1, <2>2, <1>3, <1>8, <1>9 DEF Answered
<1>13. SentAsAsked'
  <2>1. Received.cmd = fn.cmd /\ Received.args = Asked(fn)  BY <1>3, CommandArrives
  <2>2. \A n \in 1..Len(sent') : n = 1  BY <1>9
  <2>3. fn' = fn /\ Asked(fn') = Asked(fn)  BY <1>3
  <2> QED  BY <2>1, <2>2, <2>3, <1>7, <1>8, <1>9 DEF SentAsAsked
<1> QED  BY <1>6, <1>7, <1>10, <1>11, <1>12, <1>13 DEF Tracked

\* Some of the answer has come.
LEMMA ReceiveFailsStep ==
  ASSUME IfInv, NEW error \in {"IO_ERROR", "NO_MEMORY"}, NEW an \in Answers(fn),
         NEW n \in BreaksAt, NEW m \in BreaksAt \cup {Len(Encoded(fn.cmd, an))},
         ReceiveFails(error, an, n, m)
  PROVE  PkNext /\ Tracked'
<1> DEFINE bytes == Encoded(fn.cmd, an)
<1>1. PICK kept : kept = SubSeq(bytes, 1, n) \o SubSeq(bytes, m + 1, Len(bytes))
  OBVIOUS
<1>2. /\ pc = "exchange" /\ n <= m /\ m <= Len(bytes) /\ Len(kept) < PKT_SIZE_MAX
      /\ \E size \in {Len(kept)} \cup (IF error = "NO_MEMORY" THEN {} ELSE {pkt_size}) :
           ReplyBreaks(Store(pkt_buffer, 0, kept), size)
      /\ sent' = Append(sent, Received) /\ com' = error /\ pc' = "status"
      /\ ret' = ret /\ phy_rx_timeout' = phy_rx_timeout
      /\ UNCHANGED <<fn, calls, adds, bep_result, out, answer>>
  BY <1>1 DEF ReceiveFails, KeepRunning
<1>3. IsFunction(fn) /\ fn.cmd \in 0..(WORD - 1) /\ pkt_buffer \in [Offsets -> Byte]
      /\ pkt_size \in 0..PKT_SIZE_MAX
      /\ sent = <<>> /\ bep_result \in Byte /\ adds \in Seq(AddType)
  BY <1>2, FunctionIs DEF IfInv, PkInv, PkTypeOK, Tracked, Typed, IfTypeOK, Asking, AddType
<1>4. PkNext
  <2>1. bytes \in Seq(Byte) /\ n \in Nat /\ m \in Nat
    <3>1. bytes \in Seq(Byte)  BY <1>3, EncodedIs
    <3>2. Len(bytes) \in Nat  BY <3>1
    <3> HIDE DEF bytes
    <3>3. m \in BreaksAt \cup {Len(bytes)}  BY DEF bytes
    <3> QED  BY <3>1, <3>2, <3>3, IfAssumption
  <2> HIDE DEF bytes
  <2>2. SubSeq(bytes, 1, n) \in Seq(Byte) /\ SubSeq(bytes, m + 1, Len(bytes)) \in Seq(Byte)
    BY <2>1, <1>2
  <2>3. kept \in Seq(Byte) /\ Len(kept) \in Nat  BY <2>2, <1>1
  <2>4. Store(pkt_buffer, 0, kept) \in [Offsets -> Byte]  BY <2>3, <1>3, StoredFirst
  <2>5. PICK buf \in [Offsets -> Byte] : buf = Store(pkt_buffer, 0, kept)  BY <2>4
  <2>6. Len(kept) \in 0..PKT_SIZE_MAX  BY <2>3, <1>2, Constants
  <2>7. PICK size \in 0..PKT_SIZE_MAX : ReplyBreaks(buf, size)
    BY <2>5, <2>6, <1>2, <1>3
  <2> QED  BY <2>7 DEF PkNext
<1>5. /\ ret' = "NONE" /\ Running' /\ Quiet' /\ IsFunction(fn') /\ calls' \in Nat
      /\ phy_rx_timeout' = IF pc' # "idle" /\ fn'.wait # NoWait THEN fn'.wait
                                                                ELSE PHY_RX_TIMEOUT
      /\ (AnswerHonest /\ CopyFits /\ StatusReadAsCount)'
  BY <1>2, KeepsRunning
<1>6. NotWalking' /\ holds' = "broken"  BY <1>2 DEF ReplyBreaks, NotWalking, walkVars
<1>7. sent' = <<Received>> /\ Len(sent') = 1 /\ sent'[1] = Received  BY <1>2, <1>3
<1>8. Typed'  BY <1>2, <1>3, <1>5 DEF Typed, IfTypeOK, AddType
<1>9. Asking' /\ StatusTaken' /\ Answered'
  BY <1>2, <1>6, <1>7 DEF Asking, StatusTaken, Answered
<1>10. SentAsAsked'
  <2>1. Received.cmd = fn.cmd /\ Received.args = Asked(fn)  BY <1>2, CommandArrives
  <2>2. \A k \in 1..Len(sent') : k = 1  BY <1>7
  <2>3. fn' = fn /\ Asked(fn') = Asked(fn)  BY <1>2
  <2> QED  BY <2>1, <2>2, <2>3, <1>5, <1>6, <1>7 DEF SentAsAsked
<1> QED  BY <1>4, <1>5, <1>8, <1>9, <1>10 DEF Tracked

-----------------------------------------------------------------------------
(* Searches of the answer *)

\* A step of a search that does not end it leaves all that it does not look at.
LEMMA Searching ==
  ASSUME IfInv, pc \in {"status", "take"}, UNCHANGED ifVars,
         UNCHANGED <<pkt_buffer, holds, packet, pkt_size>>,
         arg' = arg, ~NotWalking',
         arg_type' = IF pc = "status" THEN Arg.RESULT ELSE fn.key2
  PROVE  Tracked'
<1>1. /\ pc' = pc /\ fn' = fn /\ adds' = adds /\ com' = com /\ ret' = ret /\ out' = out
      /\ bep_result' = bep_result /\ phy_rx_timeout' = phy_rx_timeout
      /\ calls' = calls /\ sent' = sent /\ answer' = answer
  BY DEF ifVars
<1>2. /\ ret' = "NONE" /\ Running' /\ Quiet' /\ IsFunction(fn') /\ calls' \in Nat
      /\ phy_rx_timeout' = IF pc' # "idle" /\ fn'.wait # NoWait THEN fn'.wait
                                                                ELSE PHY_RX_TIMEOUT
      /\ (AnswerHonest /\ CopyFits /\ StatusReadAsCount)'
  BY <1>1, KeepsRunning
<1>3. Typed'  BY <1>1, <1>2 DEF IfInv, Tracked, Typed, IfTypeOK
<1>4. Asking'  BY <1>1 DEF Asking
<1>5. Answered'
  <2>1. Answered  BY DEF IfInv, Tracked
  <2>2. IsAnswer => IsAnswer'  BY <1>1 DEF IsAnswer
  <2> QED  BY <2>1, <2>2, <1>1 DEF Answered
<1>6. StatusTaken'
  <2>1. StatusTaken  BY DEF IfInv, Tracked
  <2>2. HasStatus => HasStatus'
    <3>1. FirstIn(Arg.RESULT)' = FirstIn(Arg.RESULT)  BY <1>1 DEF FirstIn
    <3> QED  BY <3>1, <1>1 DEF HasStatus
  <2> QED  BY <2>1, <2>2, <1>1 DEF StatusTaken
<1>7. SentAsAsked'
  <2>1. SentAsAsked  BY DEF IfInv, Tracked
  <2>2. Asked(fn') = Asked(fn)  BY <1>1
  <2> QED  BY <2>1, <2>2, <1>1 DEF SentAsAsked
<1> QED  BY <1>2, <1>3, <1>4, <1>5, <1>6, <1>7 DEF Tracked

\* The search for the status begins,
LEMMA LookForStatusStep ==
  ASSUME IfInv, LookForStatus
  PROVE  PkNext /\ Tracked'
<1>1. pc = "status" /\ GetArg(Arg.RESULT) /\ UNCHANGED ifVars  BY DEF LookForStatus
<1>2. PICK key \in 1..(WORD - 1) : key = Arg.RESULT  BY ArgValues
<1>3. GetArg(key)  BY <1>1, <1>2
<1>4. PkNext  BY <1>3 DEF PkNext
<1>5. arg_type' = Arg.RESULT /\ arg' = arg /\ ~NotWalking'
      /\ UNCHANGED <<pkt_buffer, holds, packet, pkt_size>>
  BY <1>2, <1>3 DEF GetArg, NotWalking
<1>6. Tracked'  BY <1>1, <1>5, Searching
<1> QED  BY <1>4, <1>6

\* that for the argument,
LEMMA LookForArgStep ==
  ASSUME IfInv, LookForArg
  PROVE  PkNext /\ Tracked'
<1>1. pc = "take" /\ GetArg(fn.key2) /\ UNCHANGED ifVars  BY DEF LookForArg
<1>2. PICK key \in 1..(WORD - 1) : key = fn.key2
  <2>1. IsFunction(fn) /\ fn.take # "none"
    BY <1>1 DEF IfInv, Tracked, Typed, StatusTaken
  <2> QED  BY <2>1, FunctionIs
<1>3. GetArg(key)  BY <1>1, <1>2
<1>4. PkNext  BY <1>3 DEF PkNext
<1>5. arg_type' = fn.key2 /\ arg' = arg /\ ~NotWalking'
      /\ UNCHANGED <<pkt_buffer, holds, packet, pkt_size>>
  BY <1>2, <1>3 DEF GetArg, NotWalking
<1>6. Tracked'  BY <1>1, <1>5, Searching
<1> QED  BY <1>4, <1>6

\* and either goes on.
LEMMA WalkStep ==
  ASSUME IfInv, Walk
  PROVE  PkNext /\ Tracked'
<1>1. pc \in {"status", "take"} /\ WalkTurn /\ arg_type' # 0 /\ UNCHANGED ifVars
  BY DEF Walk
<1>2. arg' = arg /\ arg_type' = arg_type /\ ~NotWalking
      /\ UNCHANGED <<pkt_buffer, holds, packet, pkt_size>>
  BY <1>1 DEF WalkTurn, GetReturns, ArgPassed
<1>3. arg_type = IF pc = "status" THEN Arg.RESULT ELSE fn.key2
  BY <1>1, <1>2 DEF IfInv, Tracked, Answered
<1>4. ~NotWalking'  BY <1>1 DEF NotWalking
<1>5. Tracked'  BY <1>1, <1>2, <1>3, <1>4, Searching
<1> QED  BY <1>1, <1>5 DEF PkNext

\* Index of the first argument of the answer with a key, if it is known,
LEMMA FirstInIs ==
  ASSUME NEW key, NEW j \in 1..Len(answer), Len(answer) \in Nat, answer[j].key = key,
         \A k \in 1..(j - 1) : answer[k].key # key
  PROVE  FirstIn(key) = j
<1> DEFINE with == {k \in 1..Len(answer) : answer[k].key = key}
<1>1. j \in with  OBVIOUS
<1>2. ASSUME NEW k \in with PROVE j <= k
  <2>1. k \in 1..Len(answer) /\ answer[k].key = key  OBVIOUS
  <2>2. k \notin 1..(j - 1)  BY <2>1
  <2> QED  BY <2>1, <2>2
<1>3. \A m \in with : (\A k \in with : m <= k) => m = j
  <2> TAKE m \in with
  <2>1. m \in Nat /\ j \in Nat  OBVIOUS
  <2> QED  BY <1>1, <1>2, <2>1
<1>4. FirstIn(key) = IF with = {} THEN 0 ELSE CHOOSE m \in with : \A k \in with : m <= k
  BY DEF FirstIn
<1> HIDE DEF with
<1>5. with # {}  BY <1>1
<1> QED  BY <1>1, <1>2, <1>3, <1>4, <1>5

\* and 0 if there is none.
LEMMA FirstInNone ==
  ASSUME NEW key, \A j \in 1..Len(answer) : answer[j].key # key
  PROVE  FirstIn(key) = 0
BY DEF FirstIn

\* What a search of a whole answer returns: the first argument with the key or none.
Finds(key) ==
  /\ FirstIn(key) \in 1..Len(answer)
  /\ answer[FirstIn(key)].key = key
  /\ arg'.data \in 0..(PKT_SIZE_MAX + 4)
  /\ arg'.size = Len(answer[FirstIn(key)].data)
  /\ Bytes(arg.data, arg.size)' = answer[FirstIn(key)].data

\* A search that has ended returns one or the other.
LEMMA SearchEnds ==
  ASSUME IfInv, pc \in {"status", "take"}, com = "OK", WalkTurn, arg_type' = 0
  PROVE  LET key == IF pc = "status" THEN Arg.RESULT ELSE fn.key2
         IN  \/ result' = "OK" /\ Finds(key)
             \/ result' = "INVALID_ARGUMENT" /\ FirstIn(key) = 0 /\ arg' = arg
<1>1. PICK key : key = IF pc = "status" THEN Arg.RESULT ELSE fn.key2  OBVIOUS
<1>2. /\ PkInv /\ ~NotWalking /\ holds = "reply" /\ IsAnswer
      /\ arg_type = key
  BY <1>1 DEF IfInv, Tracked, Answered, WalkTurn
<1>3. Len(answer) \in Nat /\ Len(packet) = Len(answer)
      /\ \A j \in 1..Len(answer) :
           packet[j].key = answer[j].key /\ packet[j].data = answer[j].data
  <2>1. packet \in Seq(PkArg)  BY <1>2 DEF PkInv, PkTypeOK, PkArg
  <2> QED  BY <2>1, <1>2 DEF IsAnswer
<1>4. arg'.data \in 0..(PKT_SIZE_MAX + 4)
  <2>1. PkInv'  BY <1>2, WalkTurnStep
  <2> QED  BY <2>1 DEF PkInv, PkTypeOK
<1>5. CASE /\ Walks
           /\ Word(pkt_buffer, pdata) = arg_type
           /\ arg' = ArgHere
           /\ GetReturns("OK")
  <2>1. pkt_buffer' = pkt_buffer  BY DEF WalkTurn
  <2>2. /\ i + 1 \in 1..Len(packet)
        /\ packet[i + 1].key = arg_type
        /\ \A k \in 1..i : packet[k].key # arg_type
        /\ arg'.size = Len(packet[i + 1].data)
        /\ Bytes(arg.data, arg.size)' = packet[i + 1].data
    BY <1>2, <1>5, <2>1, TurnFinds
  <2>3. i \in Nat  BY <1>2, Constants DEF PkInv, PkTypeOK
  <2>4. PICK j \in 1..Len(answer) : j = i + 1  BY <2>2, <1>3
  <2>5. answer[j].key = key /\ packet[j].data = answer[j].data
    BY <2>2, <2>4, <1>2, <1>3
  <2>6. \A k \in 1..(j - 1) : answer[k].key # key
    <3>1. j - 1 = i /\ \A k \in 1..i : k \in 1..Len(answer)  BY <2>3, <2>4, <1>3
    <3> QED  BY <3>1, <2>2, <1>2, <1>3
  <2>7. FirstIn(key) = j  BY <2>5, <2>6, <1>3, FirstInIs
  <2>8. Finds(key)  BY <2>2, <2>4, <2>5, <2>7, <1>4 DEF Finds
  <2>9. result' = "OK"  BY <1>5 DEF GetReturns
  <2> QED  BY <2>8, <2>9, <1>1
<1>6. CASE ~Walks /\ GetReturns("INVALID_ARGUMENT") /\ UNCHANGED arg
  <2>1. \A j \in 1..Len(packet) : packet[j].key # arg_type  BY <1>2, <1>6, TurnEnds
  <2>2. FirstIn(key) = 0  BY <2>1, <1>2, <1>3, FirstInNone
  <2>3. result' = "INVALID_ARGUMENT" /\ arg' = arg  BY <1>6 DEF GetReturns
  <2> QED  BY <2>2, <2>3, <1>1
<1>7. arg_type' # arg_type  BY <1>2 DEF NotWalking
<1> QED  BY <1>5, <1>6, <1>7 DEF WalkTurn

\* A search that has ended returns OK or INVALID_ARGUMENT, also over a broken packet.
LEMMA SearchReturns ==
  ASSUME IfInv, WalkTurn, arg_type' = 0
  PROVE  /\ NotWalking' /\ PkNext
         /\ UNCHANGED <<pkt_buffer, holds, pkt_size>>
         /\ arg'.data \in 0..(PKT_SIZE_MAX + 4)
         /\ result' \in {"OK", "INVALID_ARGUMENT"}
<1>1. PkInv /\ PkInv' /\ ~NotWalking  BY WalkTurnStep DEF IfInv, WalkTurn
<1>2. arg'.data \in 0..(PKT_SIZE_MAX + 4)  BY <1>1 DEF PkInv, PkTypeOK
<1>3. arg_type' # arg_type  BY <1>1 DEF NotWalking
<1>4. result' \in {"OK", "INVALID_ARGUMENT"}  BY <1>3 DEF WalkTurn, GetReturns
<1> QED  BY <1>2, <1>4 DEF WalkTurn, PkNext, NotWalking

\* The arguments of the answer are such as the functions expect.
LEMMA AnswerArg ==
  ASSUME IfInv, pc \in {"status", "take"}, com = "OK", NEW j \in 1..Len(answer)
  PROVE  IsAnswerArg(fn, answer[j])
<1>1. IsFunction(fn) /\ answer \in Answers(fn)
  BY DEF IfInv, Tracked, Typed, Answered
<1> QED  BY <1>1, AnswerIs

\* A step that leaves the commands sent and their function as they are says nothing new
\* of them.
LEMMA StillAsAsked ==
  ASSUME IfInv, pc \in {"status", "take"}, fn' = fn, sent' = sent, holds' = holds,
         pkt_size' = pkt_size
  PROVE  SentAsAsked'
<1>1. SentAsAsked /\ Len(sent) = 1  BY DEF IfInv, Tracked, Answered
<1>2. Asked(fn') = Asked(fn)  OBVIOUS
<1> QED  BY <1>1, <1>2 DEF SentAsAsked

\* The status of the answer has been looked for.
LEMMA StatusFoundStep ==
  ASSUME IfInv, StatusFound
  PROVE  PkNext /\ Tracked'
<1>1. /\ pc = "status" /\ WalkTurn /\ arg_type' = 0
      /\ bep_result' = (IF result' = "OK" THEN pkt_buffer[arg'.data] ELSE 0)
      /\ UNCHANGED <<fn, calls, out, sent, answer>>
  BY DEF StatusFound, Status
<1>2. /\ NotWalking' /\ PkNext /\ UNCHANGED <<pkt_buffer, holds, pkt_size>>
      /\ arg'.data \in 0..(PKT_SIZE_MAX + 4)
  BY <1>1, SearchReturns
<1>3. /\ pkt_buffer \in [Offsets -> Byte] /\ IsFunction(fn) /\ adds \in Seq(AddType)
      /\ ret = "NONE" /\ out = <<>> /\ Answered
      /\ com \in {"OK", "IO_ERROR", "NO_MEMORY"}
  BY <1>1 DEF IfInv, PkInv, PkTypeOK, Tracked, Typed, IfTypeOK, Running, Answered, AddType
<1>4. bep_result' \in Byte
  <2>1. arg'.data \in Offsets  BY <1>2, Constants DEF Offsets
  <2> QED  BY <2>1, <1>1, <1>3, IfConstants
<1>5. SentAsAsked'  BY <1>1, <1>2, StillAsAsked
<1>6. com = "OK" => HasStatus'
  <2> SUFFICES ASSUME com = "OK" PROVE HasStatus'  OBVIOUS
  <2>1. FirstIn(Arg.RESULT)' = FirstIn(Arg.RESULT)  BY <1>1 DEF FirstIn
  <2>2. \/ result' = "OK" /\ Finds(Arg.RESULT)
        \/ result' = "INVALID_ARGUMENT" /\ FirstIn(Arg.RESULT) = 0
    BY <1>1, SearchEnds
  <2>3. CASE result' = "OK" /\ Finds(Arg.RESULT)
    <3>1. PICK j \in 1..Len(answer) : j = FirstIn(Arg.RESULT)  BY <2>3 DEF Finds
    <3>2. IsAnswerArg(fn, answer[j]) /\ answer[j].key = Arg.RESULT
      BY <3>1, <2>3, <1>1, AnswerArg DEF Finds
    <3>3. Len(answer[j].data) = 1  BY <3>2 DEF IsAnswerArg
    <3>4. arg'.size = 1 /\ Bytes(arg.data, arg.size)' = answer[j].data
      BY <3>1, <3>3, <2>3 DEF Finds
    <3>5. Bytes(arg.data, arg.size)' = [k \in 1..1 |-> pkt_buffer[arg'.data + k - 1]]
      BY <3>4, <1>2 DEF Bytes
    <3>6. answer[j].data[1] = pkt_buffer[arg'.data + 1 - 1]  BY <3>4, <3>5
    <3>7. arg'.data + 1 - 1 = arg'.data  BY <1>2, Constants
    <3>8. j # 0  OBVIOUS
    <3>9. arg'.data # 0
      <4>1. arg' = ArgHere /\ pdata \in Nat
        BY <1>1, <2>3 DEF WalkTurn, GetReturns, NotWalking, IfInv, PkInv, PkTypeOK
      <4> QED  BY <4>1 DEF ArgHere
    <3> QED  BY <3>1, <3>6, <3>7, <3>8, <3>9, <2>1, <2>3, <1>1, <1>2 DEF HasStatus
  <2>4. CASE result' = "INVALID_ARGUMENT" /\ FirstIn(Arg.RESULT) = 0
    BY <2>1, <2>4, <1>1 DEF HasStatus
  <2> QED  BY <2>2, <2>3, <2>4
<1>7. CASE (GivesUp(com) \/ fn.take = "none") /\ Return(com)
  <2>1. Typed' /\ Running' /\ Quiet' /\ Asking' /\ Answered' /\ StatusTaken'
    BY <1>1, <1>2, <1>3, <1>4, <1>7, Returns
  <2>2. CASE com # "OK"
    <3>1. ret' # "OK" /\ out' = <<>>  BY <2>2, <1>1, <1>3, <1>7 DEF Return
    <3>2. (ret # "OK" /\ out = <<>> /\ IsFunction(fn))'  BY <3>1, <1>1, <1>3
    <3>3. (AnswerHonest /\ CopyFits /\ StatusReadAsCount)'
      BY <3>2, FailureReturned, PTL
    <3> QED  BY <3>3, <2>1, <1>2, <1>5 DEF Tracked
  <2>3. CASE com = "OK"
    <3>1. fn'.take = "none"  BY <2>3, <1>1, <1>7 DEF GivesUp
    <3>2. AnswerHonest'  BY <3>1, <2>3, <1>6 DEF AnswerHonest, HasStatus
    <3>3. CopyFits'  BY <3>1 DEF CopyFits
    <3>4. StatusReadAsCount'
      <4>1. enroll_add.take = "unchecked"  BY DEF enroll_add, Take, SendCmd
      <4>2. fn' # enroll_add  BY <4>1, <3>1
      <4> QED  BY <4>2 DEF StatusReadAsCount
    <3> QED  BY <3>2, <3>3, <3>4, <2>1, <1>2, <1>5 DEF Tracked
  <2> QED  BY <2>2, <2>3
<1>8. CASE /\ ~GivesUp(com) /\ fn.take # "none"
           /\ pc' = "take" /\ KeepRunning /\ UNCHANGED <<adds, com>>
  <2>1. com = "OK" /\ ret' = ret /\ phy_rx_timeout' = phy_rx_timeout
    BY <1>8 DEF GivesUp, KeepRunning
  <2>2. /\ ret' = "NONE" /\ Running' /\ Quiet' /\ IsFunction(fn') /\ calls' \in Nat
        /\ phy_rx_timeout' = IF pc' # "idle" /\ fn'.wait # NoWait THEN fn'.wait
                                                                  ELSE PHY_RX_TIMEOUT
        /\ (AnswerHonest /\ CopyFits /\ StatusReadAsCount)'
    BY <2>1, <1>1, <1>8, KeepsRunning
  <2>3. Typed'  BY <2>1, <2>2, <1>3, <1>4, <1>8 DEF Typed, IfTypeOK, AddType
  <2>4. Asking'  BY <1>8 DEF Asking
  <2>5. StatusTaken'  BY <2>1, <1>1, <1>6, <1>8 DEF StatusTaken
  <2>6. Answered'
    <3>1. IsAnswer => IsAnswer'  BY <1>1 DEF IsAnswer, WalkTurn
    <3> QED  BY <3>1, <2>1, <1>1, <1>2, <1>3, <1>8 DEF Answered
  <2> QED  BY <2>2, <2>3, <2>4, <2>5, <2>6, <1>2, <1>5 DEF Tracked
<1> QED  BY <1>7, <1>8 DEF StatusFound

\* A number that is cut to a uint16_t does not grow.
LEMMA CutNumber ==
  ASSUME NEW r \in Nat, NEW w \in Nat, w > 0
  PROVE  r % w \in Nat /\ r % w <= r
<1>1. r = (r % w) + w * (r \div w) /\ r % w \in 0..(w - 1) /\ r \div w \in Nat
  OBVIOUS
<1>2. \A a, b \in Nat : a * b \in Nat  OBVIOUS
<1>3. w * (r \div w) \in Nat  BY <1>1, <1>2
<1> QED  BY <1>1, <1>3

\* What is handed out is the first bytes of an argument.
LEMMA FirstBytes ==
  ASSUME NEW data \in Seq(Byte), NEW n \in 0..Len(data), NEW given,
         given = [k \in 1..n |-> data[k]]
  PROVE  IsPrefix(given, data) /\ Len(given) = n
<1>1. n \in Nat /\ n <= Len(data) /\ Len(data) \in Nat  OBVIOUS
<1>2. \A k \in 1..n : data[k] \in Byte  BY <1>1
<1>3. given \in Seq(Byte) /\ Len(given) = n  BY <1>1, <1>2, BytesAre
<1>4. /\ SubSeq(given, 1, n) \in Seq(Byte) /\ Len(SubSeq(given, 1, n)) = n
      /\ SubSeq(data, 1, n) \in Seq(Byte) /\ Len(SubSeq(data, 1, n)) = n
      /\ \A k \in 1..n : SubSeq(given, 1, n)[k] = given[k]
      /\ \A k \in 1..n : SubSeq(data, 1, n)[k] = data[k]
  BY <1>1, <1>3
<1>5. SubSeq(given, 1, n) = SubSeq(data, 1, n)  BY <1>4, SeqEqual
<1> QED  BY <1>1, <1>3, <1>5 DEF IsPrefix

\* The argument has been found and is handed out.
LEMMA HandedOut ==
  ASSUME IfInv, pc = "take", fn.room # NULL, Finds(fn.key2), UNCHANGED pkt_buffer,
         fn.take # "find",
         out' = CASE fn.take = "find" -> <<>>
                  [] fn.take = "copy" -> Bytes(arg'.data, CopySize(fn.room, arg'.size))
                  [] OTHER -> Bytes(arg'.data, fn.room)
  PROVE  /\ IsPrefix(out', answer[FirstIn(fn.key2)].data)
         /\ \/ Len(out') = Len(answer[FirstIn(fn.key2)].data)
            \/ Len(out') = fn.room % WORD
         /\ fn.take = "copy" => Len(out') <= fn.room
<1>1. /\ IsFunction(fn) /\ com = "OK" /\ fn.take # "none" /\ fn.room \in Nat
      /\ fn.take \in {"value", "copy", "unchecked"}
  BY FunctionIs DEF IfInv, Tracked, Typed, StatusTaken
<1>2. PICK j \in 1..Len(answer) : j = FirstIn(fn.key2)  BY DEF Finds
<1>3. IsAnswerArg(fn, answer[j]) /\ answer[j].key = fn.key2
  BY <1>1, <1>2, AnswerArg DEF Finds
<1>4. PICK data \in Seq(Byte) : data = answer[j].data  BY <1>3 DEF IsAnswerArg
<1>5. arg'.size = Len(data) /\ Len(data) \in Nat
      /\ Bytes(arg.data, arg.size)' = data
  BY <1>2, <1>4 DEF Finds
<1>6. \A k \in 1..Len(data) : data[k] = pkt_buffer[arg'.data + k - 1]
  <2>1. Bytes(arg.data, arg.size)' = [k \in 1..Len(data) |-> pkt_buffer[arg'.data + k - 1]]
    BY <1>5 DEF Bytes
  <2> QED  BY <2>1, <1>5
<1>7. ASSUME NEW n \in 0..Len(data)
      PROVE  Bytes(arg'.data, n) = [k \in 1..n |-> data[k]]
  <2>1. \A k \in 1..n : k \in 1..Len(data)  BY <1>5
  <2> QED  BY <2>1, <1>6 DEF Bytes
<1>8. CASE fn.take = "copy"
  <2>1. fn.room % WORD \in Nat /\ fn.room % WORD <= fn.room
    <3>1. WORD > 0  BY IfConstants
    <3> QED  BY <3>1, <1>1, IfConstants, CutNumber
  <2>2. PICK n \in 0..Len(data) : n = CopySize(fn.room, Len(data))
    <3>1. CopySize(fn.room, Len(data)) \in 0..Len(data)  BY <2>1, <1>5 DEF CopySize
    <3> QED  BY <3>1
  <2>3. out' = [k \in 1..n |-> data[k]]  BY <2>2, <1>5, <1>7, <1>8
  <2>4. IsPrefix(out', data) /\ Len(out') = n  BY <2>3, FirstBytes
  <2>5. n <= fn.room /\ (n = Len(data) \/ n = fn.room % WORD)
    BY <2>1, <2>2, <1>1, <1>5 DEF CopySize
  <2> QED  BY <2>4, <2>5, <1>2, <1>4
<1>9. CASE fn.take \in {"value", "unchecked"}
  <2>1. Len(data) = fn.room
    <3>1. fn.take = "unchecked" => fn.room = 4  BY <1>1, FunctionIs
    <3> QED  BY <3>1, <1>3, <1>4, <1>9 DEF IsAnswerArg
  <2>2. PICK n \in 0..Len(data) : n = fn.room  BY <2>1, <1>5
  <2>3. out' = Bytes(arg'.data, n)  BY <2>2, <1>9
  <2>4. out' = [k \in 1..n |-> data[k]]  BY <2>3, <1>7
  <2>5. IsPrefix(out', data) /\ Len(out') = n  BY <2>4, FirstBytes
  <2> QED  BY <2>1, <2>2, <2>5, <1>2, <1>4, <1>9
<1> QED  BY <1>1, <1>8, <1>9

\* Where the status of the answer has been found arg still points at it.
LEMMA AtStatus ==
  ASSUME IfInv, pc = "take", FirstIn(Arg.RESULT) # 0
  PROVE  arg.data # 0 /\ pkt_buffer[arg.data] = bep_result
BY DEF IfInv, Tracked, StatusTaken, HasStatus

\* What the function says to its caller once it has found its argument or not.
LEMMA ArgFoundSays ==
  ASSUME IfInv, ArgFound
  PROVE  /\ AnswerHonest' /\ CopyFits' /\ StatusReadAsCount'
         /\ \E r \in {"OK", "INVALID_ARGUMENT", "NO_MEMORY"} : Return(r)
<1>1. /\ pc = "take" /\ WalkTurn /\ arg_type' = 0
      /\ UNCHANGED <<fn, calls, bep_result, sent, answer>>
  BY DEF ArgFound
<1>2. pkt_buffer' = pkt_buffer /\ arg'.data \in 0..(PKT_SIZE_MAX + 4)
      /\ result' \in {"OK", "INVALID_ARGUMENT"}
  BY <1>1, SearchReturns
<1>3. /\ IsFunction(fn) /\ com = "OK" /\ fn.take # "none" /\ HasStatus
      /\ out = <<>>
  BY <1>1 DEF IfInv, Tracked, Typed, StatusTaken, Running
<1>4. \/ result' = "OK" /\ Finds(fn.key2)
      \/ result' = "INVALID_ARGUMENT" /\ FirstIn(fn.key2) = 0 /\ arg' = arg
  BY <1>1, <1>3, SearchEnds
<1>5. /\ FirstIn(Arg.RESULT)' = FirstIn(Arg.RESULT)
      /\ FirstIn(fn.key2)' = FirstIn(fn.key2)
      /\ FirstIn(Arg.COUNT)' = FirstIn(Arg.COUNT)
  BY <1>1 DEF FirstIn
<1>6. bep_result' = IF FirstIn(Arg.RESULT) = 0 THEN 0
                                               ELSE answer[FirstIn(Arg.RESULT)].data[1]
  BY <1>1, <1>3 DEF HasStatus
<1>7. ASSUME NEW r \in {"INVALID_ARGUMENT", "NO_MEMORY"}, Return(r), out' = out
      PROVE  AnswerHonest' /\ CopyFits' /\ StatusReadAsCount'
  <2>1. (ret # "OK" /\ out = <<>> /\ IsFunction(fn))'
    BY <1>1, <1>3, <1>7 DEF Return
  <2>2. (AnswerHonest /\ CopyFits /\ StatusReadAsCount)'  BY <2>1, FailureReturned, PTL
  <2> QED  BY <2>2
<1>8. CASE /\ fn.take # "unchecked" /\ GivesUp(result') /\ Return(result')
           /\ UNCHANGED out
  <2>1. result' = "INVALID_ARGUMENT"  BY <1>2, <1>8 DEF GivesUp
  <2> QED  BY <2>1, <1>7, <1>8
<1>9. CASE fn.room = NULL /\ Return("NO_MEMORY") /\ UNCHANGED out
  BY <1>7, <1>9
<1>10. CASE /\ ~GivesUp(result')
            /\ fn.room # NULL
            /\ out' = CASE fn.take = "find" -> <<>>
                        [] fn.take = "copy" ->
                             Bytes(arg'.data, CopySize(fn.room, arg'.size))
                        [] OTHER -> Bytes(arg'.data, fn.room)
            /\ Return("OK")
  <2>1. result' = "OK" /\ Finds(fn.key2)  BY <1>4, <1>10 DEF GivesUp
  <2>2. PICK j \in 1..Len(answer) : j = FirstIn(fn.key2) /\ j # 0  BY <2>1 DEF Finds
  <2>3. fn.take # "find" =>
          /\ IsPrefix(out', answer[FirstIn(fn.key2)].data)
          /\ \/ Len(out') = Len(answer[FirstIn(fn.key2)].data)
             \/ Len(out') = fn.room % WORD
          /\ fn.take = "copy" => Len(out') <= fn.room
    BY <1>1, <1>2, <1>10, <2>1, HandedOut
  <2>4. Bytes(arg.data, arg.size)' = answer[FirstIn(fn.key2)].data
    BY <2>1 DEF Finds
  <2>5. AnswerHonest'
    BY <1>1, <1>5, <1>6, <2>2, <2>3, <2>4 DEF AnswerHonest
  <2>6. CopyFits'  BY <1>1, <2>3 DEF CopyFits
  <2>7. StatusReadAsCount'
    <3>1. enroll_add.key2 = Arg.COUNT  BY DEF enroll_add, Take, SendCmd
    <3>2. FirstIn(Arg.COUNT)' = FirstIn(fn.key2) \/ fn' # enroll_add
      BY <3>1, <1>1, <1>5
    <3> QED  BY <3>2, <2>2 DEF StatusReadAsCount
  <2> QED  BY <1>10, <2>5, <2>6, <2>7
<1>11. CASE /\ fn.take = "unchecked" /\ GivesUp(result')
            /\ out' \in LeftAtArg
            /\ Return("OK")
  <2>1. FirstIn(fn.key2) = 0 /\ arg' = arg  BY <1>4, <1>11 DEF GivesUp
  <2>2. AnswerHonest'  BY <1>1, <1>5, <1>6, <1>11, <2>1 DEF AnswerHonest
  <2>3. CopyFits'  BY <1>1, <1>11 DEF CopyFits
  <2>4. FirstIn(Arg.RESULT) # 0 => out'[1] = bep_result
    <3> SUFFICES ASSUME FirstIn(Arg.RESULT) # 0 PROVE out'[1] = bep_result
      OBVIOUS
    <3>1. fn.room = 4  BY <1>3, <1>11, FunctionIs
    <3>2. arg.data # 0 /\ pkt_buffer[arg.data] = bep_result  BY <1>1, AtStatus
    <3>3. out' = [k \in 1..4 |-> pkt_buffer[arg.data + k - 1]]
      BY <3>1, <3>2, <2>1, <1>11 DEF Bytes, LeftAtArg
    <3>4. out'[1] = pkt_buffer[arg.data + 1 - 1]  BY <3>3
    <3>5. arg.data + 1 - 1 = arg.data  BY <1>2, <2>1, Constants
    <3> QED  BY <3>2, <3>4, <3>5
  <2>5. StatusReadAsCount'  BY <2>4, <1>1, <1>5 DEF StatusReadAsCount
  <2> QED  BY <1>11, <2>2, <2>3, <2>5
<1> QED  BY <1>8, <1>9, <1>10, <1>11, <1>2 DEF ArgFound, GivesUp

\* The argument has been looked for.
LEMMA ArgFoundStep ==
  ASSUME IfInv, ArgFound
  PROVE  PkNext /\ Tracked'
<1>1. /\ pc = "take" /\ WalkTurn /\ arg_type' = 0
      /\ UNCHANGED <<fn, calls, bep_result, sent, answer>>
  BY DEF ArgFound
<1>2. NotWalking' /\ PkNext /\ UNCHANGED <<holds, pkt_size>>  BY <1>1, SearchReturns
<1>3. AnswerHonest' /\ CopyFits' /\ StatusReadAsCount'  BY ArgFoundSays
<1>4. PICK r \in {"OK", "INVALID_ARGUMENT", "NO_MEMORY"} : Return(r)  BY ArgFoundSays
<1>5. bep_result' \in Byte  BY <1>1 DEF IfInv, Tracked, Typed, IfTypeOK
<1>6. Typed' /\ Running' /\ Quiet' /\ Asking' /\ Answered' /\ StatusTaken'
  BY <1>1, <1>2, <1>4, <1>5, Returns
<1>7. SentAsAsked'  BY <1>1, <1>2, StillAsAsked
<1> QED  BY <1>2, <1>3, <1>6, <1>7 DEF Tracked

-----------------------------------------------------------------------------
(* The theorems *)

\* bep_identify, from which the first state starts, is one of the functions.
LEMMA IdentifyIs == IsFunction(bep_identify)
<1>1. Cmd.IDENTIFY \in 0..(WORD - 1)
  <2>1. Cmd.IDENTIFY = 3  BY DEF Cmd
  <2> QED  BY <2>1, IfConstants
<1>2. Arg.NONE \in 0..(WORD - 1)  BY ArgValues, IfConstants
<1>3. \E none \in Seq(AddType) : none = <<>>
  <2>1. <<>> \in Seq(AddType)  BY EmptySeq
  <2> QED  BY <2>1, Zenon
<1>4. PICK none \in Seq(AddType) : none = <<>>  BY <1>3
<1>5. NoWait \in Nat  BY SMT DEF NoWait
<1>6. bep_identify = [cmd |-> Cmd.IDENTIFY, key |-> Arg.NONE, adds |-> none,
                      take |-> "none", key2 |-> Arg.NONE, room |-> 0, wait |-> NoWait]
  BY <1>4 DEF bep_identify, SendCmd
<1>7. bep_identify.take = "none"  BY <1>6
<1> QED  BY <1>1, <1>2, <1>5, <1>6, <1>7 DEF IsFunction, AddType

\* The invariant holds at first,
LEMMA IfInitInv == IfInit => IfInv
<1> SUFFICES ASSUME IfInit PROVE IfInv  OBVIOUS
<1>1. PkInv  BY InitInv DEF IfInit
<1>2. IsFunction(fn)  BY IdentifyIs DEF IfInit
<1>3. adds \in Seq(AddType) /\ bep_result \in Byte /\ NotWalking
  BY EmptySeq, IfConstants DEF IfInit, PkInit, NotWalking
<1>4. Typed  BY <1>2, <1>3 DEF IfInit, Typed, IfTypeOK, AddType
<1>5. AnswerHonest /\ CopyFits /\ StatusReadAsCount  BY <1>2, NothingYet DEF IfInit
<1>6. SentAsAsked
  <2>1. Len(sent) = 0 /\ ret # "OK"  BY DEF IfInit
  <2> QED  BY <2>1 DEF SentAsAsked
<1>7. Running /\ Quiet /\ Asking /\ Answered /\ StatusTaken
  BY <1>3 DEF IfInit, Running, Quiet, Asking, Answered, StatusTaken
<1> QED  BY <1>1, <1>4, <1>5, <1>6, <1>7 DEF IfInv, Tracked

\* a step that changes nothing keeps it,
LEMMA StutterStep ==
  ASSUME IfInv, UNCHANGED <<pkVars, ifVars>>
  PROVE  Tracked'
<1>1. /\ pkt_buffer' = pkt_buffer /\ pkt_size' = pkt_size /\ arg' = arg
      /\ arg_type' = arg_type /\ holds' = holds /\ packet' = packet
  BY DEF pkVars, walkVars
<1>2. /\ pc' = pc /\ fn' = fn /\ adds' = adds /\ com' = com /\ ret' = ret /\ out' = out
      /\ bep_result' = bep_result /\ phy_rx_timeout' = phy_rx_timeout
      /\ calls' = calls /\ sent' = sent /\ answer' = answer
  BY DEF ifVars
<1>3. Typed' /\ Running' /\ Quiet'
  BY <1>1, <1>2 DEF IfInv, Tracked, Typed, IfTypeOK, Running, Quiet, NotWalking
<1>4. Asking'
  <2>1. Asking  BY DEF IfInv, Tracked
  <2> QED  BY <2>1, <1>1, <1>2 DEF Asking, NotWalking, Done
<1>5. Answered'
  <2>1. Answered  BY DEF IfInv, Tracked
  <2>2. IsAnswer => IsAnswer'  BY <1>1, <1>2 DEF IsAnswer
  <2> QED  BY <2>1, <2>2, <1>1, <1>2 DEF Answered, NotWalking
<1>6. StatusTaken'
  <2>1. StatusTaken  BY DEF IfInv, Tracked
  <2>2. HasStatus => HasStatus'  BY <1>1, <1>2 DEF HasStatus, FirstIn
  <2> QED  BY <2>1, <2>2, <1>2 DEF StatusTaken
<1>7. SentAsAsked'
  <2>1. SentAsAsked  BY DEF IfInv, Tracked
  <2> QED  BY <2>1, <1>1, <1>2 DEF SentAsAsked
<1>8. AnswerHonest' /\ CopyFits' /\ StatusReadAsCount'
  <2>1. AnswerHonest /\ CopyFits /\ StatusReadAsCount  BY DEF IfInv, Tracked
  <2>2. Bytes(arg.data, arg.size)' = Bytes(arg.data, arg.size)  BY <1>1 DEF Bytes
  <2>3. FirstIn(Arg.RESULT)' = FirstIn(Arg.RESULT)
        /\ FirstIn(fn.key2)' = FirstIn(fn.key2)
        /\ FirstIn(Arg.COUNT)' = FirstIn(Arg.COUNT)
    BY <1>2 DEF FirstIn
  <2>4. AnswerHonest'  BY <2>1, <2>2, <2>3, <1>2 DEF AnswerHonest
  <2>5. CopyFits'  BY <2>1, <1>2 DEF CopyFits
  <2>6. StatusReadAsCount'  BY <2>1, <2>3, <1>2 DEF StatusReadAsCount
  <2> QED  BY <2>4, <2>5, <2>6
<1> QED  BY <1>3, <1>4, <1>5, <1>6, <1>7, <1>8 DEF Tracked

\* and every step is one of the packet and keeps it.
LEMMA IfStep == IfInv /\ [IfNext]_<<pkVars, ifVars>> => [PkNext]_pkVars /\ Tracked'
<1> SUFFICES ASSUME IfInv, [IfNext]_<<pkVars, ifVars>>
             PROVE  [PkNext]_pkVars /\ Tracked'
  OBVIOUS
<1>1. ASSUME calls < Len(Functions), NEW f \in Functions[calls + 1], Call(f)
      PROVE  [PkNext]_pkVars /\ Tracked'
  BY <1>1, CallStep
<1>2. CASE Build  BY <1>2, BuildStep
<1>3. ASSUME NEW arrived \in BOOLEAN, SendFails("IO_ERROR", arrived)
      PROVE  [PkNext]_pkVars /\ Tracked'
  BY <1>3, SendFailsStep
<1>4. ASSUME NEW an \in Answers(fn), ReceiveWhole(an)
      PROVE  [PkNext]_pkVars /\ Tracked'
  BY <1>4, ReceiveWholeStep
<1>5. ASSUME NEW an \in Answers(fn), NEW error \in {"IO_ERROR", "NO_MEMORY"},
             NEW n \in BreaksAt, NEW m \in BreaksAt \cup {Len(Encoded(fn.cmd, an))},
             ReceiveFails(error, an, n, m)
      PROVE  [PkNext]_pkVars /\ Tracked'
  BY <1>5, ReceiveFailsStep
<1>6. CASE LookForStatus  BY <1>6, LookForStatusStep
<1>7. CASE StatusFound  BY <1>7, StatusFoundStep
<1>8. CASE LookForArg  BY <1>8, LookForArgStep
<1>9. CASE ArgFound  BY <1>9, ArgFoundStep
<1>10. CASE Walk  BY <1>10, WalkStep
<1>11. CASE UNCHANGED <<pkVars, ifVars>>  BY <1>11, StutterStep
<1> QED
  BY <1>1, <1>2, <1>3, <1>4, <1>5, <1>6, <1>7, <1>8, <1>9, <1>10, <1>11 DEF IfNext

\* The invariant with that of the packet.
LEMMA IfStepInv == IfInv /\ [IfNext]_<<pkVars, ifVars>> => IfInv'
<1> SUFFICES ASSUME IfInv, [IfNext]_<<pkVars, ifVars>> PROVE IfInv'  OBVIOUS
<1>1. [PkNext]_pkVars /\ Tracked'  BY IfStep
<1>2. PkInv'  BY <1>1, StepInv DEF IfInv
<1> QED  BY <1>1, <1>2 DEF IfInv

\* The inductive invariant holds of all functions, called one after the other.
THEOREM IfInvariant == IfSpec => []IfInv
<1> QED  BY IfInitInv, IfStepInv, PTL DEF IfSpec

\* The command functions use the packet functions as these are meant to be used: the
\* arguments they add fit a uint16_t, they search in what they have received only, and
\* what the module answers is a packet (bmlite_if.c 162-325, hcp_tiny.c 60-153).
THEOREM IfImplementsPacket == IfSpec => PkSpec
<1>1. IfInit => PkInit  BY DEF IfInit
<1> QED  BY <1>1, IfStep, IfInvariant, PTL DEF IfSpec, PkSpec

\* So a search of one of them finds the first argument with the key in the packet the
\* function has built or received, with its data, or none if there is none.
THEOREM IfSearchesArgList == IfSpec => ImplementsArgList
<1> QED  BY IfImplementsPacket, PacketImplementsArgList, PTL

\* The types; phy_rx_timeout is what main has set it to whenever no function runs,
\* however the last one has ended (bmlite_if.c 124-159).
THEOREM IfTypeCorrect == IfSpec => []IfTypeOK
<1>1. IfInv => IfTypeOK  BY DEF IfInv, Tracked, Typed
<1> QED  BY <1>1, IfInvariant, PTL

\* The module gets the command the function stands for once at most, with all of its
\* arguments and their data (bmlite_if.c 313-325 and its callers).
THEOREM CommandsAsAsked == IfSpec => []SentAsAsked
<1>1. IfInv => SentAsAsked  BY DEF IfInv, Tracked
<1> QED  BY <1>1, IfInvariant, PTL

\* A function that returns OK tells its caller what is in the answer to its own command:
\* the status, and the data of the argument it asks for, all of it or as many bytes as
\* the size of the caller's area says once it is cut to a uint16_t, whatever size that
\* is (hcp_tiny.c 120-155).
THEOREM AnswersHonest == IfSpec => []AnswerHonest
<1>1. IfInv => AnswerHonest  BY DEF IfInv, Tracked
<1> QED  BY <1>1, IfInvariant, PTL

\* bmlite_copy_arg stays in the area of the caller, whatever size that has and however
\* long the argument is (hcp_tiny.c 122-138; bmlite_if.c 188, 224).
THEOREM CopiesFit == IfSpec => []CopyFits
<1>1. IfInv => CopyFits  BY DEF IfInv, Tracked
<1> QED  BY <1>1, IfInvariant, PTL

\* What bep_enroll_finger reads from an answer to ENROLL ADD that has a status but no
\* count begins with that status: it does not take a failure for the end of the
\* enrolment (bmlite_if.c 78-86).
THEOREM StatusesReadAsCount == IfSpec => []StatusReadAsCount
<1>1. IfInv => StatusReadAsCount  BY DEF IfInv, Tracked
<1> QED  BY <1>1, IfInvariant, PTL

=============================================================================
