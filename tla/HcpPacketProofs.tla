--------------------------- MODULE HcpPacketProofs ---------------------------
(***************************************************************************)
(* Proofs about HcpPacket for every size of the buffer, every command and  *)
(* reply and every data a failed reception may leave: the types, that the  *)
(* bytes are those of the arguments put in, that the walk keeps in step    *)
(* with them, and that the whole implements ArgList.                       *)
(*                                                                         *)
(* PacketEncoded, WalkInStep and PkTypeOK rest on each other: the walk     *)
(* stays inside the buffer because it meets the sizes that were put there. *)
(* Two facts have to be added: a command has room for its number of        *)
(* arguments (Counted), so that this does not go round, and a search in a  *)
(* broken packet finds nothing that ArgList would see (Settled).           *)
(***************************************************************************)
EXTENDS HcpPacket, SequenceTheorems, TLAPS

\* A uint16_t has more than one value.
LEMMA WordBound == WORD \in Nat /\ WORD > 1 /\ WORD = BYTE * BYTE
<1>1. BYTE \in Nat /\ BYTE > 1  BY PacketAssumption
<1>2. \A b \in Nat : b > 1 => b * b \in Nat /\ b * b > 1  OBVIOUS
<1> QED  BY <1>1, <1>2 DEF WORD

\* Division by b cuts a number below b * b into two below b.
LEMMA Quotient ==
  ASSUME NEW b \in Nat, b > 1, NEW v \in Nat, v < b * b
  PROVE  /\ v % b \in 0..(b - 1)
         /\ v \div b \in 0..(b - 1)
         /\ (v % b) + b * (v \div b) = v
<1>1. v = (v % b) + b * (v \div b) /\ v % b \in 0..(b - 1) /\ v \div b \in Nat  OBVIOUS
<1>2. v \div b < b
  <2> SUFFICES ASSUME v \div b >= b PROVE FALSE  BY <1>1
  <2> DEFINE q == v \div b
  <2>1. \A q0 \in Nat : q0 >= b => b * q0 >= b * b  OBVIOUS
  <2>2. b * (v \div b) >= b * b  BY <2>1, <1>1
  <2> QED  BY <2>2, <1>1
<1> QED  BY <1>1, <1>2

\* Two bytes make a uint16_t.
LEMMA WordOfBytes ==
  ASSUME NEW buf \in [Offsets -> Byte], NEW at \in 0..(PKT_SIZE_MAX + 6)
  PROVE  Word(buf, at) \in 0..(WORD - 1)
<1>1. BYTE \in Nat /\ BYTE > 1 /\ PKT_SIZE_MAX \in Nat  BY PacketAssumption
<1>2. buf[at] \in 0..(BYTE - 1) /\ buf[at + 1] \in 0..(BYTE - 1)
  BY <1>1 DEF Offsets, Byte
<1>3. \A b \in Nat : \A x, y \in 0..(b - 1) : x + b * y \in 0..(b * b - 1)
  <2> SUFFICES ASSUME NEW b \in Nat, NEW x \in 0..(b - 1), NEW y \in 0..(b - 1)
               PROVE  x + b * y \in 0..(b * b - 1)
    OBVIOUS
  <2>1. b * y \in Nat  OBVIOUS
  <2>2. b * y <= b * (b - 1)  OBVIOUS
  <2>3. b * (b - 1) = b * b - b  OBVIOUS
  <2>4. b * b \in Nat  OBVIOUS
  <2> QED  BY <2>1, <2>2, <2>3, <2>4
<1> QED  BY <1>1, <1>2, <1>3 DEF Word, WORD

\* A uint16_t as two bytes, and back.
LEMMA FieldIs ==
  ASSUME NEW v \in 0..(WORD - 1)
  PROVE  /\ Field(v) \in Seq(Byte) /\ Len(Field(v)) = 2
         /\ Field(v)[1] + BYTE * Field(v)[2] = v
<1>1. BYTE \in Nat /\ BYTE > 1 /\ v \in Nat /\ v < BYTE * BYTE
  BY PacketAssumption, WordBound
<1>2. /\ v % BYTE \in Byte /\ v \div BYTE \in Byte
      /\ (v % BYTE) + BYTE * (v \div BYTE) = v
  BY <1>1, Quotient DEF Byte
<1> QED  BY <1>2 DEF Field

\* What the buffer holds once bytes have been stored in it.
LEMMA StoreIs ==
  ASSUME NEW buf \in [Offsets -> Byte], NEW at \in Nat, NEW bytes \in Seq(Byte)
  PROVE  /\ Store(buf, at, bytes) \in [Offsets -> Byte]
         /\ \A o \in Offsets :
              Store(buf, at, bytes)[o] =
                IF at <= o /\ o < at + Len(bytes) THEN bytes[o - at + 1] ELSE buf[o]
<1>1. \A o \in Offsets : o \in Nat  BY PacketAssumption DEF Offsets
<1>2. ASSUME NEW o \in Offsets, at <= o, o < at + Len(bytes)
      PROVE  bytes[o - at + 1] \in Byte
  <2>1. o - at + 1 \in 1..Len(bytes)  BY <1>1, <1>2
  <2> QED  BY <2>1
<1>3. \A o \in Offsets : buf[o] \in Byte  OBVIOUS
<1> QED  BY <1>2, <1>3 DEF Store

\* A stored byte is there,
LEMMA ByteStored ==
  ASSUME NEW buf \in [Offsets -> Byte], NEW at \in Nat, NEW bytes \in Seq(Byte),
         NEW n \in 1..Len(bytes), at + n - 1 \in Offsets
  PROVE  Store(buf, at, bytes)[at + n - 1] = bytes[n]
<1>1. (at + n - 1) - at + 1 = n /\ at <= at + n - 1 /\ at + n - 1 < at + Len(bytes)
  OBVIOUS
<1> QED  BY <1>1 DEF Store

\* and one outside them is as it was.
LEMMA ByteKept ==
  ASSUME NEW buf \in [Offsets -> Byte], NEW at \in Nat, NEW bytes \in Seq(Byte),
         NEW o \in Offsets, o < at \/ o >= at + Len(bytes)
  PROVE  Store(buf, at, bytes)[o] = buf[o]
<1>1. o \in Nat  BY PacketAssumption DEF Offsets
<1>2. ~(at <= o /\ o < at + Len(bytes))  BY <1>1
<1> QED  BY <1>2 DEF Store

\* A stored word is there.
LEMMA WordStored ==
  ASSUME NEW buf \in [Offsets -> Byte], NEW at \in 0..(PKT_SIZE_MAX + 6),
         NEW v \in 0..(WORD - 1)
  PROVE  Word(Store(buf, at, Field(v)), at) = v
<1>1. at \in Offsets /\ at + 1 \in Offsets /\ at \in Nat
  BY PacketAssumption DEF Offsets
<1>2. /\ Store(buf, at, Field(v))[at] = Field(v)[1]
      /\ Store(buf, at, Field(v))[at + 1] = Field(v)[2]
  BY <1>1, FieldIs, StoreIs
<1> QED  BY <1>2, FieldIs DEF Word

\* Bytes stored elsewhere leave a word as it was.
LEMMA WordKept ==
  ASSUME NEW buf \in [Offsets -> Byte], NEW at \in Nat, NEW bytes \in Seq(Byte),
         NEW w \in 0..(PKT_SIZE_MAX + 6),
         w + 1 < at \/ w >= at + Len(bytes)
  PROVE  Word(Store(buf, at, bytes), w) = Word(buf, w)
<1>1. w \in Offsets /\ w + 1 \in Offsets /\ w \in Nat
  BY PacketAssumption DEF Offsets
<1>2. Len(bytes) \in Nat  OBVIOUS
<1>3. /\ Store(buf, at, bytes)[w] = buf[w]
      /\ Store(buf, at, bytes)[w + 1] = buf[w + 1]
  BY <1>1, <1>2, StoreIs
<1> QED  BY <1>3 DEF Word

\* What bmlite_add_arg writes can be read back, and nothing before it has changed but
\* the number of arguments (hcp_tiny.c 86-95).
LEMMA WithArgIs ==
  ASSUME NEW buf \in [Offsets -> Byte], NEW at \in 4..PKT_SIZE_MAX,
         NEW key \in 0..(WORD - 1), NEW data \in Seq(Byte),
         Len(data) < WORD, at + 4 + Len(data) <= PKT_SIZE_MAX,
         Word(buf, 2) + 1 < WORD
  PROVE  LET new == WithArg(buf, at, key, data)
         IN  /\ new \in [Offsets -> Byte]
             /\ Word(new, 2) = Word(buf, 2) + 1
             /\ Word(new, at) = key
             /\ Word(new, at + 2) = Len(data)
             /\ \A n \in 1..Len(data) : new[at + 3 + n] = data[n]
             /\ \A o \in 4..(at - 1) : new[o] = buf[o]
<1> DEFINE nr == Word(buf, 2) + 1
           b1 == Store(buf, 2, Field(nr))
           b2 == Store(b1, at, Field(key))
           b3 == Store(b2, at + 2, Field(Len(data)))
           b4 == Store(b3, at + 4, data)
<1>1. PKT_SIZE_MAX \in Nat /\ PKT_SIZE_MAX >= 8 /\ WORD \in Nat /\ WORD > 1
  BY PacketAssumption, WordBound
<1>2. at \in Nat /\ at >= 4 /\ at + 4 <= PKT_SIZE_MAX /\ Len(data) \in 0..(WORD - 1)
  BY <1>1
<1>3. nr \in 0..(WORD - 1) /\ nr % WORD = nr
  <2>1. Word(buf, 2) \in 0..(WORD - 1)  BY WordOfBytes, <1>1
  <2> QED  BY <2>1, <1>1
<1>4. WithArg(buf, at, key, data) = b4  BY <1>3 DEF WithArg
<1>5. /\ Field(nr) \in Seq(Byte) /\ Len(Field(nr)) = 2
      /\ Field(key) \in Seq(Byte) /\ Len(Field(key)) = 2
      /\ Field(Len(data)) \in Seq(Byte) /\ Len(Field(Len(data))) = 2
  BY FieldIs, <1>2, <1>3
<1> HIDE DEF nr
<1>6. b1 \in [Offsets -> Byte]  BY StoreIs, <1>5
<1>7. b2 \in [Offsets -> Byte]  BY StoreIs, <1>5, <1>6, <1>2
<1>8. b3 \in [Offsets -> Byte]  BY StoreIs, <1>5, <1>7, <1>2
<1>9. b4 \in [Offsets -> Byte]  BY StoreIs, <1>8, <1>2
<1>10. Word(b4, 2) = nr
  <2>1. Word(b1, 2) = nr  BY WordStored, <1>1, <1>3
  <2>2. Word(b2, 2) = Word(b1, 2)  BY WordKept, <1>1, <1>2, <1>5, <1>6
  <2>3. Word(b3, 2) = Word(b2, 2)  BY WordKept, <1>1, <1>2, <1>5, <1>7
  <2>4. Word(b4, 2) = Word(b3, 2)  BY WordKept, <1>1, <1>2, <1>8
  <2> QED  BY <2>1, <2>2, <2>3, <2>4
<1>11. Word(b4, at) = key
  <2>1. Word(b2, at) = key  BY WordStored, <1>1, <1>2, <1>6
  <2>2. Word(b3, at) = Word(b2, at)  BY WordKept, <1>1, <1>2, <1>5, <1>7
  <2>3. Word(b4, at) = Word(b3, at)  BY WordKept, <1>1, <1>2, <1>8
  <2> QED  BY <2>1, <2>2, <2>3
<1>12. Word(b4, at + 2) = Len(data)
  <2>1. Word(b3, at + 2) = Len(data)  BY WordStored, <1>1, <1>2, <1>7
  <2>2. Word(b4, at + 2) = Word(b3, at + 2)  BY WordKept, <1>1, <1>2, <1>8
  <2> QED  BY <2>1, <2>2
<1>13. ASSUME NEW n \in 1..Len(data) PROVE b4[at + 3 + n] = data[n]
  <2>1. (at + 4) + n - 1 \in Offsets /\ (at + 4) + n - 1 = at + 3 + n
        /\ at + 4 \in Nat
    BY <1>1, <1>2 DEF Offsets
  <2>2. b4[(at + 4) + n - 1] = data[n]  BY <2>1, ByteStored, <1>8
  <2> QED  BY <2>1, <2>2
<1>14. ASSUME NEW o \in 4..(at - 1) PROVE b4[o] = buf[o]
  <2>1. o \in Offsets /\ o \in Nat /\ o < at /\ o >= 4  BY <1>1, <1>2 DEF Offsets
  <2>6. o >= 2 + Len(Field(nr)) /\ o < at + 2 /\ o < at + 4 /\ at + 2 \in Nat
    BY <2>1, <1>2, <1>5
  <2>7. 2 \in Nat  OBVIOUS
  <2>2. b1[o] = buf[o]  BY <2>1, <2>6, <2>7, ByteKept, <1>5
  <2>3. b2[o] = b1[o]  BY <2>1, ByteKept, <1>5, <1>6, <1>2
  <2>4. b3[o] = b2[o]  BY <2>1, <2>6, ByteKept, <1>5, <1>7
  <2>5. b4[o] = b3[o]  BY <2>1, ByteKept, <1>8, <1>2
  <2> QED  BY <2>2, <2>3, <2>4, <2>5
<1> QED  BY <1>4, <1>9, <1>10, <1>11, <1>12, <1>13, <1>14 DEF nr

-----------------------------------------------------------------------------
(* Packets *)

PkArg == [key : 0..(WORD - 1), at : 4..PKT_SIZE_MAX, data : Seq(Byte)]

\* The fields of an argument and its end.
LEMMA ArgIs ==
  ASSUME NEW a \in PkArg
  PROVE  /\ a.key \in 0..(WORD - 1)
         /\ a.at \in Nat /\ a.at >= 4
         /\ a.data \in Seq(Byte) /\ Len(a.data) \in Nat
         /\ End(a) \in Nat /\ End(a) = a.at + 4 + Len(a.data)
<1>1. /\ a.key \in 0..(WORD - 1) /\ a.at \in 4..PKT_SIZE_MAX /\ a.data \in Seq(Byte)
      /\ PKT_SIZE_MAX \in Nat
  BY PacketAssumption DEF PkArg
<1>2. a.at \in Nat /\ a.at >= 4 /\ Len(a.data) \in Nat  BY <1>1
<1> QED  BY <1>1, <1>2 DEF End

\* The bytes of an argument that ends within size.
LEMMA Inside ==
  ASSUME NEW at \in Nat, at >= 4, NEW n \in Nat, NEW size \in Nat, at + 4 + n <= size
  PROVE  /\ at \in 4..(size - 1) /\ at + 1 \in 4..(size - 1)
         /\ at + 2 \in 4..(size - 1) /\ at + 2 + 1 \in 4..(size - 1)
         /\ \A k \in 1..n : at + 3 + k \in 4..(size - 1)
OBVIOUS

\* A buffer with one argument more at its end and the others where they were.
Longer(new, buf, size, key, data) ==
  /\ Word(new, 2) = Word(buf, 2) + 1
  /\ Word(new, size) = key
  /\ Word(new, size + 2) = Len(data)
  /\ \A n \in 1..Len(data) : new[size + 3 + n] = data[n]
  /\ \A o \in 4..(size - 1) : new[o] = buf[o]

\* It holds the packet with that argument appended.
LEMMA EncodesLonger ==
  ASSUME NEW buf, NEW new, NEW size \in 4..PKT_SIZE_MAX,
         NEW list \in Seq(PkArg), Encodes(buf, size, list),
         NEW key \in 0..(WORD - 1), NEW data \in Seq(Byte), Longer(new, buf, size, key, data)
  PROVE  Encodes(new, size + 4 + Len(data), Append(list, Argument(key, size, data)))
<1> DEFINE last == Argument(key, size, data)
           bs   == Append(list, last)
<1>1. PKT_SIZE_MAX \in Nat /\ WORD \in Nat /\ size \in Nat /\ Len(list) \in Nat
      /\ Len(data) \in Nat
  BY PacketAssumption, WordBound
<1>2. /\ Word(new, 2) = Word(buf, 2) + 1
      /\ Word(new, size) = key
      /\ Word(new, size + 2) = Len(data)
      /\ \A n \in 1..Len(data) : new[size + 3 + n] = data[n]
      /\ \A o \in 4..(size - 1) : new[o] = buf[o]
  BY DEF Longer
<1>3. last = [key |-> key, at |-> size, data |-> data]  BY DEF Argument
<1>4. /\ Len(bs) = Len(list) + 1 /\ bs # <<>>
      /\ bs[Len(list) + 1] = last
      /\ \A j \in 1..Len(list) : bs[j] = list[j]
  BY <1>1
<1>5. End(last) = size + 4 + Len(data)  BY <1>3 DEF End
<1>6. size = IF list = <<>> THEN 4 ELSE End(list[Len(list)])  BY DEF Encodes
<1>7. ASSUME NEW j \in 1..Len(list)
      PROVE  /\ list[j] \in PkArg
             /\ End(list[j]) <= size
             /\ list[j].at + 4 + Len(list[j].data) <= size
  <2>1. list[j] \in PkArg  BY ElementOfSeq
  <2>2. End(list[j]) <= size  BY DEF Encodes
  <2> QED  BY <2>1, <2>2, ArgIs
<1> HIDE DEF last, bs
<1>8. ASSUME NEW j \in 1..(Len(list) + 1)
      PROVE  /\ bs[j].at = IF j = 1 THEN 4 ELSE End(bs[j - 1])
             /\ End(bs[j]) <= size + 4 + Len(data)
             /\ Word(new, bs[j].at) = bs[j].key
             /\ Word(new, bs[j].at + 2) = Len(bs[j].data)
             /\ \A n \in 1..Len(bs[j].data) : new[bs[j].at + 3 + n] = bs[j].data[n]
  <2>1. CASE j \in 1..Len(list)
    <3>1. bs[j] = list[j] /\ (j # 1 => bs[j - 1] = list[j - 1])
      BY <2>1, <1>4, <1>1
    <3>2. /\ list[j].at = IF j = 1 THEN 4 ELSE End(list[j - 1])
          /\ Word(buf, list[j].at) = list[j].key
          /\ Word(buf, list[j].at + 2) = Len(list[j].data)
          /\ \A n \in 1..Len(list[j].data) : buf[list[j].at + 3 + n] = list[j].data[n]
      BY <2>1 DEF Encodes
    <3>3. End(list[j]) <= size + 4 + Len(data)
      <4>1. End(list[j]) \in Nat /\ End(list[j]) <= size  BY <2>1, <1>7, ArgIs
      <4> QED  BY <4>1, <1>1
    <3>7. /\ list[j].at \in 4..(size - 1) /\ list[j].at + 1 \in 4..(size - 1)
          /\ list[j].at + 2 \in 4..(size - 1) /\ list[j].at + 2 + 1 \in 4..(size - 1)
          /\ \A n \in 1..Len(list[j].data) : list[j].at + 3 + n \in 4..(size - 1)
      BY <2>1, <1>7, <1>1, ArgIs, Inside
    <3>4. /\ new[list[j].at] = buf[list[j].at]
          /\ new[list[j].at + 1] = buf[list[j].at + 1]
          /\ new[list[j].at + 2] = buf[list[j].at + 2]
          /\ new[list[j].at + 2 + 1] = buf[list[j].at + 2 + 1]
      BY <3>7, <1>2
    <3>5. ASSUME NEW n \in 1..Len(list[j].data)
          PROVE  new[list[j].at + 3 + n] = buf[list[j].at + 3 + n]
      BY <3>7, <1>2
    <3>6. /\ Word(new, list[j].at) = Word(buf, list[j].at)
          /\ Word(new, list[j].at + 2) = Word(buf, list[j].at + 2)
      BY <3>4 DEF Word
    <3> QED  BY <3>1, <3>2, <3>3, <3>5, <3>6
  <2>2. CASE j = Len(list) + 1
    <3>1. bs[j] = last  BY <2>2, <1>4
    <3>2. last.at = IF j = 1 THEN 4 ELSE End(bs[j - 1])
      <4>1. CASE list = <<>>  BY <4>1, <2>2, <1>3, <1>6
      <4>2. CASE list # <<>>
        <5>2. Len(list) # 0  BY <4>2, EmptySeq
        <5>1. Len(list) \in 1..Len(list) /\ j # 1 /\ j - 1 = Len(list)
          BY <5>2, <2>2, <1>1
        <5>3. bs[j - 1] = list[Len(list)]  BY <5>1, <1>4
        <5> QED  BY <5>1, <5>3, <4>2, <1>3, <1>6
      <4> QED  BY <4>1, <4>2
    <3>3. last.at = size /\ last.key = key /\ last.data = data  BY <1>3
    <3>4. End(last) <= size + 4 + Len(data)  BY <1>5, <1>1
    <3> QED  BY <3>1, <3>2, <3>3, <3>4, <1>2
  <2> QED  BY <2>1, <2>2, <1>4, <1>1
<1>9. Word(new, 2) = Len(bs)  BY <1>2, <1>4 DEF Encodes
<1>10. size + 4 + Len(data) = IF bs = <<>> THEN 4 ELSE End(bs[Len(bs)])
  BY <1>4, <1>5
<1>11. Encodes(new, size + 4 + Len(data), bs)  BY <1>4, <1>8, <1>9, <1>10 DEF Encodes
<1> QED  BY <1>11 DEF last, bs

\* A packet with one argument more is still one (hcp_tiny.c 80-98).
LEMMA EncodesAppend ==
  ASSUME NEW buf \in [Offsets -> Byte], NEW size \in 4..PKT_SIZE_MAX,
         NEW list \in Seq(PkArg), Encodes(buf, size, list), Len(list) + 1 < WORD,
         NEW key \in 0..(WORD - 1), NEW data \in Seq(Byte),
         Len(data) < WORD, size + 4 + Len(data) <= PKT_SIZE_MAX
  PROVE  Encodes(WithArg(buf, size, key, data), size + 4 + Len(data),
                 Append(list, Argument(key, size, data)))
<1>1. Word(buf, 2) + 1 < WORD  BY DEF Encodes
<1> DEFINE new == WithArg(buf, size, key, data)
<1>2. /\ Word(new, 2) = Word(buf, 2) + 1
      /\ Word(new, size) = key
      /\ Word(new, size + 2) = Len(data)
      /\ \A n \in 1..Len(data) : new[size + 3 + n] = data[n]
      /\ \A o \in 4..(size - 1) : new[o] = buf[o]
  BY <1>1, WithArgIs
<1> HIDE DEF new
<1>3. Longer(new, buf, size, key, data)  BY <1>2 DEF Longer
<1>4. Encodes(new, size + 4 + Len(data), Append(list, Argument(key, size, data)))
  BY <1>3, EncodesLonger
<1> QED  BY <1>4 DEF new

-----------------------------------------------------------------------------
(* The inductive invariant *)

\* A command has at least four bytes for each argument, so their number is a uint16_t.
Counted == holds = "command" => 4 + 4 * Len(packet) <= pkt_size

\* There is nothing to find in a buffer that holds no packet.
Settled ==
  /\ holds \in {"nothing", "broken"} => got = NoKey
  /\ holds = "nothing" => NotWalking

PkInv == PkTypeOK /\ PacketEncoded /\ WalkInStep /\ Counted /\ Settled

\* What the proofs use of the constants.
LEMMA Constants ==
  /\ PKT_SIZE_MAX \in Nat /\ PKT_SIZE_MAX >= 8 /\ PKT_SIZE_MAX < 4 * WORD
  /\ WORD \in Nat /\ WORD > 1
BY PacketAssumption, WordBound

\* The invariant holds at first,
LEMMA InitInv == PkInit => PkInv
<1> SUFFICES ASSUME PkInit PROVE PkInv  OBVIOUS
<1>1. PkTypeOK
  <2>1. packet \in Seq(PkArg)  BY EmptySeq DEF PkInit
  <2> QED  BY <2>1, Constants DEF PkInit, PkTypeOK, NoKey, PkArg
<1> QED  BY <1>1 DEF PkInit, PkInv, PacketEncoded, WalkInStep, Counted, Settled, NotWalking

\* bmlite_init_cmd keeps it,
LEMMA InitCmdStep ==
  ASSUME PkInv, NEW cmd \in 0..(WORD - 1), NEW key \in 0..(WORD - 1), InitCmd(cmd, key)
  PROVE  PkInv'
<1> DEFINE b1    == Store(pkt_buffer, 0, Field(cmd))
           empty == Store(b1, 2, Field(0))
<1>1. pkt_buffer \in [Offsets -> Byte]  BY DEF PkInv, PkTypeOK
<1>2. 0 \in 0..(WORD - 1) /\ 0 \in Nat /\ 2 \in Nat  BY Constants
<1>3. b1 \in [Offsets -> Byte]  BY <1>1, <1>2, FieldIs, StoreIs
<1>4. empty \in [Offsets -> Byte] /\ Word(empty, 2) = 0
  <2>1. 2 \in 0..(PKT_SIZE_MAX + 6)  BY Constants
  <2> QED  BY <2>1, <1>2, <1>3, FieldIs, StoreIs, WordStored
<1>5. Encodes(empty, 4, <<>>)
  <2> HIDE DEF empty
  <2> QED  BY <1>4 DEF Encodes
<1>6. /\ pkt_buffer' \in [Offsets -> Byte]
      /\ pkt_size' \in 4..PKT_SIZE_MAX
      /\ packet' \in Seq(PkArg)
      /\ Encodes(pkt_buffer', pkt_size', packet')
      /\ 4 + 4 * Len(packet') <= pkt_size'
  <2>1. CASE key = 0
    <3>1. pkt_buffer' = empty /\ pkt_size' = 4 /\ packet' = <<>>
      BY <2>1 DEF InitCmd
    <3>2. packet' \in Seq(PkArg) /\ Len(packet') = 0  BY <3>1, EmptySeq
    <3> HIDE DEF empty
    <3> QED  BY <3>1, <3>2, <1>4, <1>5, Constants
  <2>2. CASE key # 0
    <3>1. /\ pkt_buffer' = WithArg(empty, 4, key, <<>>)
          /\ pkt_size' = 8
          /\ packet' = <<Argument(key, 4, <<>>)>>
      BY <2>2 DEF InitCmd
    <3> DEFINE none == <<>>
    <3>2. /\ 4 \in 4..PKT_SIZE_MAX /\ none \in Seq(Byte) /\ Len(none) = 0
          /\ none \in Seq(PkArg)
      BY Constants, EmptySeq
    <3>13. Argument(key, 4, <<>>) = Argument(key, 4, none)  OBVIOUS
    <3>14. Append(none, Argument(key, 4, none)) = <<Argument(key, 4, none)>>  OBVIOUS
    <3>15. Encodes(empty, 4, none)  BY <1>5
    <3>16. pkt_buffer' = WithArg(empty, 4, key, none)  BY <3>1
    <3> HIDE DEF empty, none
    <3>17. Len(none) < WORD /\ 4 + 4 + Len(none) <= PKT_SIZE_MAX
           /\ Word(empty, 2) + 1 < WORD /\ Len(none) + 1 < WORD
      BY <3>2, <1>4, Constants
    <3>18. WithArg(empty, 4, key, none) \in [Offsets -> Byte]
      <4>1. ASSUME NEW at \in 4..PKT_SIZE_MAX, at + 4 + Len(none) <= PKT_SIZE_MAX
            PROVE  WithArg(empty, at, key, none) \in [Offsets -> Byte]
        BY <4>1, <3>2, <3>17, <1>4, WithArgIs
      <4> QED  BY <4>1, <3>2, <3>17
    <3>3. pkt_buffer' \in [Offsets -> Byte]  BY <3>16, <3>18
    <3>4. Argument(key, 4, none) \in PkArg  BY <3>2 DEF Argument, PkArg
    <3>5. packet' \in Seq(PkArg) /\ Len(packet') = 1  BY <3>1, <3>4, <3>13
    <3>7. Encodes(WithArg(empty, 4, key, none), 4 + 4 + Len(none),
                  Append(none, Argument(key, 4, none)))
      BY <3>2, <3>15, <3>17, <1>4, EncodesAppend
    <3>9. 4 + 4 + Len(none) = pkt_size'  BY <3>1, <3>2
    <3>10. Encodes(pkt_buffer', pkt_size', packet')
      BY <3>1, <3>7, <3>9, <3>13, <3>14, <3>16
    <3> QED  BY <3>1, <3>3, <3>5, <3>10, Constants
  <2> QED  BY <2>1, <2>2
<1>7. PkTypeOK'
  BY <1>6, Constants DEF InitCmd, PkInv, PkTypeOK, PkArg, NoKey, walkVars
<1> QED
  BY <1>6, <1>7
  DEF PkInv, InitCmd, NotWalking, PacketEncoded, WalkInStep, Counted, Settled, walkVars

\* bmlite_add_arg keeps it,
LEMMA AddArgStep ==
  ASSUME PkInv, NEW key \in 1..(WORD - 1), NEW data \in Seq(Byte), Len(data) < WORD,
         AddArg(key, data)
  PROVE  PkInv'
<1>1. CASE UNCHANGED <<pkt_buffer, pkt_size, packet, got>> /\ result' = "NO_MEMORY"
  <2>1. PkTypeOK'
    BY <1>1 DEF AddArg, PkInv, PkTypeOK, walkVars
  <2> QED
    BY <2>1, <1>1
    DEF PkInv, AddArg, NotWalking, PacketEncoded, WalkInStep, Counted, Settled, walkVars
<1>2. CASE ~NoRoom(Len(data))
  <2> DEFINE last == Argument(key, pkt_size, data)
  <2>1. /\ pkt_buffer' = WithArg(pkt_buffer, pkt_size, key, data)
        /\ pkt_size' = pkt_size + 4 + Len(data)
        /\ packet' = Append(packet, last)
        /\ result' = "OK" /\ got' = NoKey
        /\ holds = "command" /\ holds' = "command"
    BY <1>2 DEF AddArg
  <2>2. /\ pkt_buffer \in [Offsets -> Byte]
        /\ pkt_size \in 0..PKT_SIZE_MAX
        /\ packet \in Seq(PkArg)
    BY DEF PkInv, PkTypeOK, PkArg
  <2>3. Encodes(pkt_buffer, pkt_size, packet) /\ 4 + 4 * Len(packet) <= pkt_size
    BY <2>1 DEF PkInv, PacketEncoded, Counted
  <2>4. Len(packet) \in Nat /\ Len(data) \in Nat  BY <2>2
  <2>5. pkt_size + 4 + Len(data) <= PKT_SIZE_MAX
    BY <1>2, <2>2, <2>4, Constants DEF NoRoom
  <2>6. pkt_size \in 4..PKT_SIZE_MAX /\ Len(packet) + 1 < WORD
    BY <2>2, <2>3, <2>4, <2>5, Constants
  <2>7. key \in 0..(WORD - 1)  BY Constants
  <2>8. pkt_buffer' \in [Offsets -> Byte]
    <3>1. Word(pkt_buffer, 2) + 1 < WORD  BY <2>3, <2>6 DEF Encodes
    <3> QED  BY <3>1, <2>1, <2>2, <2>5, <2>6, <2>7, WithArgIs
  <2>9. Encodes(pkt_buffer', pkt_size', packet')
    BY <2>1, <2>2, <2>3, <2>5, <2>6, <2>7, EncodesAppend
  <2>10. last \in PkArg  BY <2>6, <2>7 DEF Argument, PkArg
  <2>11. packet' \in Seq(PkArg) /\ Len(packet') = Len(packet) + 1
    <3> HIDE DEF last
    <3> QED  BY <2>1, <2>2, <2>10
  <2>12. 4 + 4 * Len(packet') <= pkt_size' /\ pkt_size' \in 0..PKT_SIZE_MAX
    <3>1. pkt_size \in Nat /\ PKT_SIZE_MAX \in Nat  BY <2>2, Constants
    <3> QED  BY <3>1, <2>1, <2>3, <2>4, <2>5, <2>11
  <2>13. PkTypeOK'
    BY <2>1, <2>8, <2>11, <2>12, Constants
    DEF AddArg, PkInv, PkTypeOK, PkArg, NoKey, walkVars
  <2> QED
    BY <2>1, <2>9, <2>12, <2>13
    DEF PkInv, AddArg, NotWalking, PacketEncoded, WalkInStep, Counted, Settled, walkVars
<1> QED  BY <1>1, <1>2 DEF AddArg

\* a reply keeps it,
LEMMA ReplyArrivesStep ==
  ASSUME PkInv, NEW buf \in [Offsets -> Byte], NEW size \in 0..(PKT_SIZE_MAX - 1),
         NEW list \in Seq([key : 0..(WORD - 1), at : Nat, data : Seq(Byte)]),
         Encodes(buf, size, list), ReplyArrives(buf, size, list)
  PROVE  PkInv'
<1> DEFINE Placed == [key : 0..(WORD - 1), at : Nat, data : Seq(Byte)]
<1>1. ASSUME NEW j \in 1..Len(list) PROVE list[j] \in PkArg
  <2>1. /\ list[j] \in Placed
        /\ j # 1 => j - 1 \in 1..Len(list) /\ list[j - 1] \in Placed
    <3>1. j # 1 => j - 1 \in 1..Len(list)  OBVIOUS
    <3> QED  BY <3>1, ElementOfSeq
  <2>2. \A a \in Placed : End(a) = a.at + 4 + Len(a.data) /\ Len(a.data) \in Nat
    BY DEF End
  <2>3. list[j].at >= 4
    <3>1. list[j].at = IF j = 1 THEN 4 ELSE End(list[j - 1])  BY DEF Encodes
    <3>2. ASSUME NEW a \in Placed PROVE End(a) >= 4
      <4>1. a.at \in Nat /\ Len(a.data) \in Nat  BY <2>2
      <4> QED  BY <4>1, <2>2
    <3> QED  BY <2>1, <3>1, <3>2
  <2>4. list[j].at <= PKT_SIZE_MAX
    <3>1. End(list[j]) <= size  BY DEF Encodes
    <3>2. list[j].at \in Nat /\ Len(list[j].data) \in Nat
          /\ End(list[j]) = list[j].at + 4 + Len(list[j].data)
      BY <2>1, <2>2
    <3>3. list[j].at + 4 + Len(list[j].data) <= size  BY <3>1, <3>2
    <3>4. \A a, n \in Nat : a + 4 + n <= size => a <= PKT_SIZE_MAX  BY Constants
    <3> QED  BY <3>2, <3>3, <3>4
  <2>5. list[j].at \in Nat  BY <2>1
  <2>6. list[j].at \in 4..PKT_SIZE_MAX  BY <2>3, <2>4, <2>5, Constants
  <2> QED  BY <2>1, <2>6 DEF PkArg
<1>2. list \in Seq(PkArg)
  <2>1. Len(list) \in Nat /\ list \in [1..Len(list) -> Placed]  BY LenProperties
  <2>2. list \in [1..Len(list) -> PkArg]  BY <1>1, <2>1
  <2>3. \A S : \A n \in Nat : [1..n -> S] \subseteq Seq(S)  BY SeqDef
  <2> QED  BY <2>1, <2>2, <2>3
<1>3. PkTypeOK'
  BY <1>2, Constants
  DEF ReplyArrives, PkInv, PkTypeOK, PkArg, NoKey, walkVars
<1> QED
  BY <1>3
  DEF PkInv, ReplyArrives, NotWalking, PacketEncoded, WalkInStep, Counted, Settled, walkVars

\* a failed reception keeps it,
LEMMA ReplyBreaksStep ==
  ASSUME PkInv, NEW buf \in [Offsets -> Byte], NEW size \in 0..PKT_SIZE_MAX,
         ReplyBreaks(buf, size)
  PROVE  PkInv'
<1>1. packet' \in Seq(PkArg)  BY EmptySeq DEF ReplyBreaks
<1>2. PkTypeOK'
  BY <1>1, Constants DEF ReplyBreaks, PkInv, PkTypeOK, PkArg, NoKey, walkVars
<1> QED
  BY <1>2
  DEF PkInv, ReplyBreaks, NotWalking, PacketEncoded, WalkInStep, Counted, Settled, walkVars

\* a walk begins at the first argument,
LEMMA GetArgStep ==
  ASSUME PkInv, NEW key \in 1..(WORD - 1), GetArg(key)
  PROVE  PkInv'
<1>1. Word(pkt_buffer, 2) \in 0..(WORD - 1)
  <2>1. 2 \in 0..(PKT_SIZE_MAX + 6)  BY Constants
  <2> QED  BY <2>1, WordOfBytes DEF PkInv, PkTypeOK
<1>2. PkTypeOK'
  BY <1>1, Constants DEF GetArg, PkInv, PkTypeOK
<1>3. WalkInStep'
  <2> SUFFICES ASSUME holds \in {"command", "reply"}
               PROVE  /\ args_nr' = Len(packet')
                      /\ pdata' = IF i' = Len(packet') THEN pkt_size' ELSE packet'[i' + 1].at
                      /\ \A j \in 1..i' : packet'[j].key # arg_type'
    BY DEF GetArg, WalkInStep
  <2>1. Encodes(pkt_buffer, pkt_size, packet)  BY DEF PkInv, PacketEncoded
  <2>2. args_nr' = Len(packet) /\ packet' = packet /\ i' = 0 /\ pdata' = 4
        /\ pkt_size' = pkt_size
    BY <2>1 DEF GetArg, Encodes
  <2>3. CASE packet = <<>>
    BY <2>1, <2>2, <2>3, EmptySeq DEF Encodes
  <2>4. CASE packet # <<>>
    <3>1. Len(packet) \in Nat \ {0}
      <4>1. packet \in Seq(PkArg)  BY DEF PkInv, PkTypeOK, PkArg
      <4> QED  BY <4>1, <2>4, EmptySeq
    <3>2. packet[1].at = 4  BY <3>1, <2>1 DEF Encodes
    <3> QED  BY <3>1, <3>2, <2>2
  <2> QED  BY <2>3, <2>4
<1> QED
  BY <1>2, <1>3
  DEF PkInv, GetArg, PacketEncoded, Counted, Settled

\* What a turn of the walk that stays inside the packet meets.
LEMMA WalkMeets ==
  ASSUME PkInv, ~NotWalking, holds \in {"command", "reply"}, Walks
  PROVE  /\ i + 1 \in 1..Len(packet)
         /\ packet[i + 1] \in PkArg
         /\ pdata = packet[i + 1].at
         /\ Word(pkt_buffer, pdata) = packet[i + 1].key
         /\ Word(pkt_buffer, pdata + 2) = Len(packet[i + 1].data)
         /\ NextArg = End(packet[i + 1])
         /\ End(packet[i + 1]) <= pkt_size
         /\ \A n \in 1..Len(packet[i + 1].data) :
              pkt_buffer[pdata + 3 + n] = packet[i + 1].data[n]
<1>1. /\ packet \in Seq(PkArg) /\ i \in 0..args_nr /\ args_nr \in 0..(WORD - 1)
  BY DEF PkInv, PkTypeOK, PkArg
<1>2. /\ args_nr = Len(packet)
      /\ pdata = IF i = Len(packet) THEN pkt_size ELSE packet[i + 1].at
  BY DEF PkInv, WalkInStep
<1>3. i + 1 \in 1..Len(packet) /\ i # Len(packet)
  BY <1>1, <1>2, Constants DEF Walks
<1>4. packet[i + 1] \in PkArg  BY <1>1, <1>3, ElementOfSeq
<1>5. pdata = packet[i + 1].at  BY <1>2, <1>3
<1>6. Encodes(pkt_buffer, pkt_size, packet)  BY DEF PkInv, PacketEncoded
<1>7. /\ Word(pkt_buffer, pdata) = packet[i + 1].key
      /\ Word(pkt_buffer, pdata + 2) = Len(packet[i + 1].data)
      /\ End(packet[i + 1]) <= pkt_size
      /\ \A n \in 1..Len(packet[i + 1].data) :
           pkt_buffer[pdata + 3 + n] = packet[i + 1].data[n]
  BY <1>3, <1>5, <1>6 DEF Encodes
<1>8. NextArg = End(packet[i + 1])  BY <1>5, <1>7 DEF NextArg, End
<1> QED  BY <1>3, <1>4, <1>5, <1>7, <1>8

\* and goes on to the next or ends.
LEMMA WalkTurnStep ==
  ASSUME PkInv, WalkTurn
  PROVE  PkInv'
<1>1. /\ pkt_buffer \in [Offsets -> Byte] /\ pkt_size \in 0..PKT_SIZE_MAX
      /\ pdata \in 0..(PKT_SIZE_MAX + 3 + WORD) /\ packet \in Seq(PkArg)
      /\ i \in 0..args_nr /\ args_nr \in 0..(WORD - 1)
      /\ arg_type \in 0..(WORD - 1) /\ arg_type # 0
  BY DEF PkInv, PkTypeOK, PkArg, WalkTurn, NotWalking
<1>2. holds # "nothing" /\ ~NotWalking
  BY DEF PkInv, Settled, WalkTurn
<1>3. ASSUME Walks
      PROVE  /\ Word(pkt_buffer, pdata + 2) \in 0..(WORD - 1)
             /\ pdata \in 0..PKT_SIZE_MAX
  <2>1. pdata + 2 \in 0..(PKT_SIZE_MAX + 6) /\ pdata \in 0..PKT_SIZE_MAX
    BY <1>1, <1>3, Constants DEF Walks
  <2> QED  BY <2>1, <1>1, WordOfBytes
<1>4. ASSUME NEW r \in {"OK", "INVALID_ARGUMENT"}, GetReturns(r),
             arg' \in [size : 0..(WORD - 1), data : 0..(PKT_SIZE_MAX + 4)]
      PROVE  PkInv'
  <2>1. got' \in [key : 0..(WORD - 1), ok : BOOLEAN]
        /\ (holds = "broken" => got' = NoKey)
    BY <1>1, <1>4, Constants DEF GetReturns, NoKey
  <2>2. PkTypeOK'
    BY <2>1, <1>4, Constants DEF GetReturns, WalkTurn, PkInv, PkTypeOK
  <2> QED
    BY <2>1, <2>2, <1>2, <1>4
    DEF GetReturns, WalkTurn, PkInv, PacketEncoded, WalkInStep, Counted, Settled, NotWalking
<1>5. CASE Walks /\ Word(pkt_buffer, pdata) = arg_type /\ arg' = ArgHere /\ GetReturns("OK")
  <2>1. arg' \in [size : 0..(WORD - 1), data : 0..(PKT_SIZE_MAX + 4)]
    <3>1. pdata + 4 \in 0..(PKT_SIZE_MAX + 4)  BY <1>3, <1>5, Constants
    <3> QED  BY <3>1, <1>3, <1>5 DEF ArgHere
  <2> QED  BY <2>1, <1>4, <1>5
<1>6. CASE /\ Walks
           /\ Word(pkt_buffer, pdata) # arg_type
           /\ i' = NextIndex
           /\ pdata' = NextArg
           /\ arg' = ArgPassed
           /\ UNCHANGED <<result, arg_type, args_nr, got>>
  <2>1. NextArg \in 0..(PKT_SIZE_MAX + 3 + WORD)
    BY <1>3, <1>6, Constants DEF NextArg
  <2>2. i' = i + 1 /\ i' \in 0..args_nr
    BY <1>1, <1>6, Constants DEF NextIndex, Walks
  <2>3. PkTypeOK'
    BY <2>1, <2>2, <1>6, Constants DEF ArgPassed, WalkTurn, PkInv, PkTypeOK
  <2>4. WalkInStep'
    <3> SUFFICES ASSUME holds \in {"command", "reply"}
                 PROVE  /\ args_nr = Len(packet)
                        /\ pdata' = IF i + 1 = Len(packet) THEN pkt_size
                                                           ELSE packet[i + 2].at
                        /\ \A j \in 1..(i + 1) : packet[j].key # arg_type
      BY <2>2, <1>1, <1>6 DEF WalkTurn, WalkInStep
    <3>1. /\ i + 1 \in 1..Len(packet)
          /\ Word(pkt_buffer, pdata) = packet[i + 1].key
          /\ NextArg = End(packet[i + 1])
      BY <1>2, <1>6, WalkMeets
    <3>2. args_nr = Len(packet) /\ \A j \in 1..i : packet[j].key # arg_type
      BY <1>2 DEF PkInv, WalkInStep
    <3>3. \A j \in 1..(i + 1) : packet[j].key # arg_type
      BY <3>1, <3>2, <1>1, <1>6
    <3>4. Encodes(pkt_buffer, pkt_size, packet)  BY DEF PkInv, PacketEncoded
    <3>5. CASE i + 1 = Len(packet)
      <4>1. packet # <<>> /\ pkt_size = End(packet[i + 1])
        BY <3>1, <3>4, <3>5, <1>1, EmptySeq DEF Encodes
      <4> QED  BY <4>1, <3>1, <3>2, <3>3, <3>5, <1>6
    <3>6. CASE i + 1 # Len(packet)
      <4>1. i + 2 \in 1..Len(packet) /\ i + 2 # 1 /\ (i + 2) - 1 = i + 1
        BY <3>1, <3>6, <1>1
      <4>2. packet[i + 2].at = End(packet[i + 1])  BY <4>1, <3>4 DEF Encodes
      <4> QED  BY <4>2, <3>1, <3>2, <3>3, <3>6, <1>6
    <3> QED  BY <3>5, <3>6
  <2> QED
    BY <2>3, <2>4, <1>2, <1>6
    DEF WalkTurn, PkInv, PacketEncoded, Counted, Settled, NotWalking
<1>7. CASE ~Walks /\ GetReturns("INVALID_ARGUMENT") /\ UNCHANGED arg
  <2>1. arg' \in [size : 0..(WORD - 1), data : 0..(PKT_SIZE_MAX + 4)]
    BY <1>7 DEF PkInv, PkTypeOK
  <2> QED  BY <2>1, <1>4, <1>7
<1> QED  BY <1>5, <1>6, <1>7 DEF WalkTurn

\* No step breaks the invariant.
LEMMA StepInv == PkInv /\ [PkNext]_pkVars => PkInv'
<1> SUFFICES ASSUME PkInv, [PkNext]_pkVars PROVE PkInv'  OBVIOUS
<1>1. ASSUME NEW cmd \in 0..(WORD - 1), NEW key \in 0..(WORD - 1), InitCmd(cmd, key)
      PROVE  PkInv'
  BY <1>1, InitCmdStep
<1>2. ASSUME NEW key \in 1..(WORD - 1), NEW data \in Seq(Byte), Len(data) < WORD,
             AddArg(key, data)
      PROVE  PkInv'
  BY <1>2, AddArgStep
<1>3. ASSUME NEW buf \in [Offsets -> Byte], NEW size \in 0..(PKT_SIZE_MAX - 1),
             NEW list \in Seq([key : 0..(WORD - 1), at : Nat, data : Seq(Byte)]),
             Encodes(buf, size, list), ReplyArrives(buf, size, list)
      PROVE  PkInv'
  BY <1>3, ReplyArrivesStep
<1>4. ASSUME NEW buf \in [Offsets -> Byte], NEW size \in 0..PKT_SIZE_MAX,
             ReplyBreaks(buf, size)
      PROVE  PkInv'
  BY <1>4, ReplyBreaksStep
<1>5. ASSUME NEW key \in 1..(WORD - 1), GetArg(key)
      PROVE  PkInv'
  BY <1>5, GetArgStep
<1>6. CASE WalkTurn  BY <1>6, WalkTurnStep
<1>7. CASE UNCHANGED pkVars
  BY <1>7
  DEF pkVars, walkVars, PkInv, PkTypeOK, PacketEncoded, WalkInStep, Counted, Settled, NotWalking
<1> QED  BY <1>1, <1>2, <1>3, <1>4, <1>5, <1>6, <1>7 DEF PkNext

\* The inductive invariant holds of the packet functions, whoever calls them.
THEOREM PacketInvariant == PkSpec => []PkInv
<1> QED  BY InitInv, StepInv, PTL DEF PkSpec

\* The packet stays inside the buffer and the walk of bmlite_get_arg no further than
\* eight bytes behind it, whatever a failed reception has left (hcp_tiny.c 82, 104).
THEOREM PacketTypeCorrect == PkSpec => []PkTypeOK
<1>1. PkInv => PkTypeOK  BY DEF PkInv
<1> QED  BY <1>1, PacketInvariant, PTL

\* For every list of arguments the bytes of the packet are those arguments
\* (hcp_tiny.c 60-98).
THEOREM PacketAlwaysEncoded == PkSpec => []PacketEncoded
<1>1. PkInv => PacketEncoded  BY DEF PkInv
<1> QED  BY <1>1, PacketInvariant, PTL

\* bmlite_get_arg walks from argument to argument, passes none that has the key and
\* stops at the last one (hcp_tiny.c 104-114).
THEOREM WalkAlwaysInStep == PkSpec => []WalkInStep
<1>1. PkInv => WalkInStep  BY DEF PkInv
<1> QED  BY <1>1, PacketInvariant, PTL

-----------------------------------------------------------------------------
(* What a search finds *)

\* A turn of the walk that returns OK has found the first argument with the key,
LEMMA TurnFinds ==
  ASSUME PkInv, ~NotWalking, holds \in {"command", "reply"}, Walks,
         Word(pkt_buffer, pdata) = arg_type, arg' = ArgHere, pkt_buffer' = pkt_buffer
  PROVE  /\ i + 1 \in 1..Len(packet)
         /\ packet[i + 1].key = arg_type
         /\ \A k \in 1..i : packet[k].key # arg_type
         /\ arg'.size = Len(packet[i + 1].data) /\ arg'.data \in Nat
         /\ Bytes(arg.data, arg.size)' = packet[i + 1].data
<1> DEFINE j == i + 1
<1>1. /\ j \in 1..Len(packet) /\ packet[j] \in PkArg
      /\ packet[j].key = arg_type
      /\ Word(pkt_buffer, pdata + 2) = Len(packet[j].data)
      /\ \A n \in 1..Len(packet[j].data) :
           pkt_buffer[pdata + 3 + n] = packet[j].data[n]
  BY WalkMeets
<1>2. pdata \in Nat  BY Constants DEF PkInv, PkTypeOK
<1>3. arg'.size = Len(packet[j].data) /\ arg'.data = pdata + 4  BY <1>1 DEF ArgHere
<1>4. Bytes(arg.data, arg.size)' = packet[j].data
  <2>1. Bytes(arg.data, arg.size)' =
          [n \in 1..Len(packet[j].data) |-> pkt_buffer[pdata + 4 + n - 1]]
    BY <1>3 DEF Bytes
  <2>2. packet[j].data \in Seq(Byte)  BY <1>1, ArgIs
  <2>3. \A n \in 1..Len(packet[j].data) : pdata + 4 + n - 1 = pdata + 3 + n
    BY <1>2, <2>2
  <2>4. packet[j].data = [n \in 1..Len(packet[j].data) |-> packet[j].data[n]]
    BY <2>2, LenProperties
  <2> QED  BY <1>1, <2>1, <2>3, <2>4
<1>5. \A k \in 1..i : packet[k].key # arg_type  BY DEF PkInv, WalkInStep
<1>6. arg'.data \in Nat  BY <1>2, <1>3
<1> QED  BY <1>1, <1>3, <1>4, <1>5, <1>6

\* and one that returns INVALID_ARGUMENT has come to the end without.
LEMMA TurnEnds ==
  ASSUME PkInv, ~NotWalking, holds \in {"command", "reply"}, ~Walks
  PROVE  \A j \in 1..Len(packet) : packet[j].key # arg_type
<1>1. packet \in Seq(PkArg) /\ i \in 0..args_nr  BY DEF PkInv, PkTypeOK, PkArg
<1>2. /\ args_nr = Len(packet)
      /\ pdata = IF i = Len(packet) THEN pkt_size ELSE packet[i + 1].at
      /\ \A j \in 1..i : packet[j].key # arg_type
  BY DEF PkInv, WalkInStep
<1>3. i = Len(packet)
  <2> SUFFICES ASSUME i # Len(packet) PROVE FALSE  OBVIOUS
  <2>1. i + 1 \in 1..Len(packet) /\ i < args_nr  BY <1>1, <1>2
  <2>2. packet[i + 1] \in PkArg  BY <1>1, <2>1, ElementOfSeq
  <2>3. End(packet[i + 1]) <= pkt_size
    BY <2>1 DEF PkInv, PacketEncoded, Encodes
  <2>4. packet[i + 1].at <= pkt_size
    <3>1. /\ packet[i + 1].at \in Nat /\ Len(packet[i + 1].data) \in Nat
          /\ End(packet[i + 1]) = packet[i + 1].at + 4 + Len(packet[i + 1].data)
      BY <2>2, ArgIs
    <3>2. pkt_size \in Nat  BY Constants DEF PkInv, PkTypeOK
    <3>3. \A a, n \in Nat : a + 4 + n <= pkt_size => a <= pkt_size  BY <3>2
    <3> QED  BY <2>3, <3>1, <3>3
  <2> QED  BY <1>2, <2>1, <2>4 DEF Walks
<1> QED  BY <1>2, <1>3

-----------------------------------------------------------------------------
(* The refinement *)

ArgsOf(p) == [j \in 1..Len(p) |-> [key |-> p[j].key, data |-> p[j].data]]

\* The arguments of a packet without their places.
LEMMA ArgsOfIs ==
  ASSUME NEW p \in Seq(PkArg)
  PROVE  /\ ArgsOf(p) \in Seq([key : 0..(WORD - 1), data : Seq(Byte)])
         /\ Len(ArgsOf(p)) = Len(p)
         /\ \A j \in 1..Len(p) :
              ArgsOf(p)[j].key = p[j].key /\ ArgsOf(p)[j].data = p[j].data
<1>1. ASSUME NEW j \in 1..Len(p)
      PROVE  [key |-> p[j].key, data |-> p[j].data] \in
               [key : 0..(WORD - 1), data : Seq(Byte)]
  <2>1. p[j] \in PkArg  BY ElementOfSeq
  <2> QED  BY <2>1 DEF PkArg
<1>2. Len(p) \in Nat  OBVIOUS
<1> QED  BY <1>1, <1>2 DEF ArgsOf

\* The actions of ArgList in terms of the packet: a new command,
LEMMA ListBegin ==
  ASSUME holds' = "command", got' = NoKey,
         \/ ArgsOf(packet') = <<>>
         \/ Len(ArgsOf(packet')) = 1 /\ ArgsOf(packet')[1].data = <<>>
  PROVE  List!Begin
BY DEF List!Begin, List!Nothing, NoKey, ArgsOf

\* one more argument,
LEMMA ListAdd ==
  ASSUME holds = "command", holds' = "command", got' = NoKey,
         Len(ArgsOf(packet')) = Len(ArgsOf(packet)) + 1,
         SubSeq(ArgsOf(packet'), 1, Len(ArgsOf(packet))) = ArgsOf(packet)
  PROVE  List!Add
BY DEF List!Add, List!Nothing, NoKey, ArgsOf

\* a reply,
LEMMA ListAnswer ==
  ASSUME holds = "command", holds' \in {"reply", "broken"}, got' = NoKey
  PROVE  List!Answer
BY DEF List!Answer, List!Nothing, NoKey, ArgsOf

\* a search,
LEMMA ListFind ==
  ASSUME holds \in {"command", "reply"}, UNCHANGED <<holds, packet>>,
         \/ /\ got'.ok
            /\ \E j \in 1..Len(ArgsOf(packet)) :
                 /\ ArgsOf(packet)[j].key = got'.key
                 /\ \A k \in 1..(j - 1) : ArgsOf(packet)[k].key # got'.key
                 /\ Bytes(arg.data, arg.size)' = ArgsOf(packet)[j].data
         \/ /\ ~got'.ok
            /\ \A j \in 1..Len(ArgsOf(packet)) : ArgsOf(packet)[j].key # got'.key
  PROVE  List!Find
<1>1. CASE got'.ok
  BY <1>1 DEF List!Find, List!IsFirst, ArgsOf
<1>2. CASE ~got'.ok
  BY <1>2 DEF List!Find, List!IsFirst, ArgsOf
<1> QED  BY <1>1, <1>2

\* and no action.
LEMMA ListStutter ==
  ASSUME UNCHANGED <<holds, packet, got>>,
         got.ok => UNCHANGED <<pkt_buffer, arg>>
  PROVE  UNCHANGED List!alVars
BY DEF List!alVars, ArgsOf, Bytes

\* The initial states are initial states of ArgList.
LEMMA InitMaps == PkInit => List!AlInit
BY DEF PkInit, NoKey, List!AlInit, List!Nothing

\* A new command is one,
LEMMA InitCmdMaps ==
  ASSUME PkInv, PkInv', NEW cmd, NEW key, InitCmd(cmd, key)
  PROVE  List!Begin
<1>1. holds' = "command" /\ got' = NoKey  BY DEF InitCmd
<1>2. packet' \in Seq(PkArg)  BY DEF PkInv, PkTypeOK, PkArg
<1>3. CASE packet' = <<>>
  BY <1>1, <1>3, ListBegin DEF ArgsOf
<1>4. CASE packet' = <<Argument(key, 4, <<>>)>>
  <2>1. Len(packet') = 1 /\ packet'[1].data = <<>>  BY <1>4 DEF Argument
  <2>2. Len(ArgsOf(packet')) = 1 /\ ArgsOf(packet')[1].data = <<>>
    BY <1>2, <2>1, ArgsOfIs
  <2> QED  BY <1>1, <2>2, ListBegin
<1> QED  BY <1>3, <1>4 DEF InitCmd

\* bmlite_add_arg adds an argument or changes nothing,
LEMMA AddArgMaps ==
  ASSUME PkInv, PkInv', NEW key, NEW data, AddArg(key, data)
  PROVE  [List!AlNext]_(List!alVars)
<1>1. CASE UNCHANGED <<pkt_buffer, pkt_size, packet, got>>
  <2>1. UNCHANGED List!alVars  BY <1>1, ListStutter DEF AddArg
  <2> QED  BY <2>1
<1>2. CASE packet' = Append(packet, Argument(key, pkt_size, data)) /\ got' = NoKey
  <2>1. packet \in Seq(PkArg) /\ packet' \in Seq(PkArg)
    BY DEF PkInv, PkTypeOK, PkArg
  <2>2. Len(packet') = Len(packet) + 1 /\ Len(packet) \in Nat
        /\ \A j \in 1..Len(packet) : packet'[j] = packet[j]
    BY <1>2, <2>1
  <2> DEFINE T == [key : 0..(WORD - 1), data : Seq(Byte)]
             new == ArgsOf(packet')
             old == ArgsOf(packet)
  <2>3. /\ new \in Seq(T) /\ old \in Seq(T)
        /\ Len(old) = Len(packet) /\ Len(new) = Len(old) + 1
    BY <2>1, <2>2, ArgsOfIs
  <2>4. \A j \in 1..Len(old) : new[j] = old[j]
    BY <2>2, <2>3 DEF ArgsOf
  <2>5. SubSeq(new, 1, Len(old)) = old
    <3> HIDE DEF new, old, T
    <3>1. Len(old) \in Nat /\ \A j \in 1..Len(old) : new[j] \in T
      BY <2>3, <2>4, ElementOfSeq
    <3>2. /\ SubSeq(new, 1, Len(old)) \in Seq(T)
          /\ Len(SubSeq(new, 1, Len(old))) = Len(old)
          /\ \A j \in 1..Len(old) : SubSeq(new, 1, Len(old))[j] = new[j]
      BY <2>3, <3>1
    <3> QED  BY <2>3, <2>4, <3>2, SeqEqual
  <2>6. List!Add  BY <1>2, <2>3, <2>5, ListAdd DEF AddArg
  <2> QED  BY <2>6 DEF List!AlNext
<1> QED  BY <1>1, <1>2 DEF AddArg

\* and a turn of the walk finds the right argument, or none where there is none, or
\* cannot be seen.
LEMMA WalkTurnMaps ==
  ASSUME PkInv, PkInv', WalkTurn
  PROVE  [List!AlNext]_(List!alVars)
<1>1. /\ holds # "nothing" /\ ~NotWalking
      /\ holds \in {"nothing", "command", "reply", "broken"}
      /\ packet \in Seq(PkArg) /\ i \in 0..args_nr
      /\ holds = "broken" => got = NoKey
      /\ UNCHANGED <<pkt_buffer, pkt_size, holds, packet>>
  BY DEF PkInv, PkTypeOK, PkArg, Settled, WalkTurn
<1>2. CASE UNCHANGED <<arg, got>>
  <2>1. UNCHANGED List!alVars  BY <1>1, <1>2, ListStutter
  <2> QED  BY <2>1
<1>3. ASSUME holds = "broken", NEW r, GetReturns(r)
      PROVE  UNCHANGED List!alVars
  <2>1. got' = got /\ ~got.ok  BY <1>1, <1>3 DEF GetReturns, NoKey
  <2> QED  BY <1>1, <2>1, ListStutter
<1>4. CASE Walks /\ Word(pkt_buffer, pdata) = arg_type /\ arg' = ArgHere /\ GetReturns("OK")
  <2>1. CASE holds = "broken"  BY <1>3, <1>4, <2>1
  <2>2. CASE holds \in {"command", "reply"}
    <3> DEFINE j == i + 1
    <3>1. /\ j \in 1..Len(packet)
          /\ packet[j].key = arg_type
          /\ \A k \in 1..i : packet[k].key # arg_type
          /\ Bytes(arg.data, arg.size)' = packet[j].data
      BY <1>1, <1>4, <2>2, TurnFinds
    <3>2. got'.ok /\ got'.key = arg_type  BY <1>4, <2>2 DEF GetReturns
    <3>3. \A k \in 1..(j - 1) : packet[k].key # arg_type  BY <1>1, <3>1
    <3>5. /\ Len(ArgsOf(packet)) = Len(packet)
          /\ ArgsOf(packet)[j].key = packet[j].key
          /\ ArgsOf(packet)[j].data = packet[j].data
          /\ \A k \in 1..(j - 1) : ArgsOf(packet)[k].key = packet[k].key
      <4>1. \A k \in 1..(j - 1) : k \in 1..Len(packet)  BY <3>1, <1>1
      <4> QED  BY <1>1, <3>1, <4>1, ArgsOfIs
    <3> HIDE DEF j
    <3>6. List!Find  BY <1>1, <2>2, <3>1, <3>2, <3>3, <3>5, ListFind
    <3> QED  BY <3>6 DEF List!AlNext
  <2> QED  BY <1>1, <2>1, <2>2
<1>5. CASE /\ arg' = ArgPassed
           /\ UNCHANGED <<result, arg_type, args_nr, got>>
  BY <1>2, <1>5 DEF ArgPassed
<1>6. CASE ~Walks /\ GetReturns("INVALID_ARGUMENT") /\ UNCHANGED arg
  <2>1. CASE holds = "broken"  BY <1>3, <1>6, <2>1
  <2>2. CASE holds \in {"command", "reply"}
    <3>1. got'.key = arg_type /\ ~got'.ok  BY <1>6, <2>2 DEF GetReturns
    <3>2. \A j \in 1..Len(packet) : packet[j].key # arg_type
      BY <1>1, <1>6, <2>2, TurnEnds
    <3>3. \A j \in 1..Len(ArgsOf(packet)) : ArgsOf(packet)[j].key # got'.key
      BY <1>1, <3>1, <3>2, ArgsOfIs
    <3>4. List!Find  BY <1>1, <2>2, <3>1, <3>3, ListFind
    <3> QED  BY <3>4 DEF List!AlNext
  <2> QED  BY <1>1, <2>1, <2>2
<1> QED  BY <1>4, <1>5, <1>6 DEF WalkTurn

\* Every step is a step of ArgList or cannot be seen there.
LEMMA StepMaps == PkInv /\ PkInv' /\ [PkNext]_pkVars => [List!AlNext]_(List!alVars)
<1> SUFFICES ASSUME PkInv, PkInv', [PkNext]_pkVars
             PROVE  [List!AlNext]_(List!alVars)
  OBVIOUS
<1>1. ASSUME NEW cmd, NEW key, InitCmd(cmd, key)
      PROVE  [List!AlNext]_(List!alVars)
  BY <1>1, InitCmdMaps DEF List!AlNext
<1>2. ASSUME NEW key, NEW data, AddArg(key, data)
      PROVE  [List!AlNext]_(List!alVars)
  BY <1>2, AddArgMaps
<1>3. ASSUME NEW buf, NEW size, NEW list, ReplyArrives(buf, size, list)
      PROVE  [List!AlNext]_(List!alVars)
  BY <1>3, ListAnswer DEF ReplyArrives, List!AlNext
<1>4. ASSUME NEW buf, NEW size, ReplyBreaks(buf, size)
      PROVE  [List!AlNext]_(List!alVars)
  BY <1>4, ListAnswer DEF ReplyBreaks, List!AlNext
<1>5. ASSUME NEW key, GetArg(key)
      PROVE  [List!AlNext]_(List!alVars)
  BY <1>5, ListStutter DEF GetArg
<1>6. CASE WalkTurn  BY <1>6, WalkTurnMaps
<1>7. CASE UNCHANGED pkVars  BY <1>7, ListStutter DEF pkVars
<1> QED  BY <1>1, <1>2, <1>3, <1>4, <1>5, <1>6, <1>7 DEF PkNext

\* The packet functions keep the promise of hcp_tiny.h: commands grow at their end, and
\* a search returns the first argument that has the key, with all of its data.
THEOREM PacketImplementsArgList == PkSpec => ImplementsArgList
<1> QED
  BY InitMaps, StepMaps, PacketInvariant, PTL
  DEF PkSpec, ImplementsArgList, List!AlSpec
=============================================================================
