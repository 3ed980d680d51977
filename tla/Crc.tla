-------------------------------- MODULE Crc --------------------------------
(***************************************************************************)
(* The check sum of the frames of HCP: fpc_crc (BMLite_sdk/src/fpc_crc.c), *)
(* which takes a byte at a time through a table, and its use by _tx_link   *)
(* and _rx_link (hcp_tiny.c).  HcpTransport takes every damaged body to be *)
(* noticed; this module is about what that rests on.                       *)
(*                                                                         *)
(* A byte and a 32-bit word are the sets of the bits that are 1 in them,   *)
(* 0 being the lowest; ^ is their symmetric difference.                    *)
(***************************************************************************)
EXTENDS Integers, Sequences, FiniteSetsExt

CONSTANTS
  MaxBody,     \* size of the longest body of a frame, MTU - 8
  Bodies,      \* bodies of frames, t_size to the end of the payload, as bytes
  Disturbed,   \* those of them that may be damaged on their way
  Bursts       \* patterns of damage: sets of bits, counted from the first one

VARIABLES
  side,    \* "tx" while _tx_link computes the sum, "bus", "rx" while _rx_link
           \* does, "checked"
  buf,     \* what fpc_crc is computed over
  size,    \* bytes it has left
  crc,     \* its register
  frame,   \* the body and sum that were written
  read,    \* those that were read
  passed   \* the sum read was the sum computed

crcVars == <<side, buf, size, crc, frame, read, passed>>

Byte == SUBSET (0..7)
Word32 == SUBSET (0..31)

-----------------------------------------------------------------------------
(* Division by the generator polynomial of CRC-32,                         *)
(* x^32 + x^26 + x^23 + ... + 1, which the properties compare fpc_crc      *)
(* with: one bit at a time, the lowest bit of a byte first and the highest *)
(* power of x in the lowest bit of the register.                           *)

Generator == {5, 8, 9, 15, 19, 20, 21, 23, 24, 26, 27, 29, 30, 31}   \* 0xEDB88320

Halved(w) == {k \in 0..30 : k + 1 \in w}

\* A bit is taken into the register.
Divided(w, bit) ==
  IF bit # (0 \in w) THEN SymDiff(Halved(w), Generator) ELSE Halved(w)

\* The register after a byte, from the register before.
DividedByte(byte) ==
  [w \in Word32 |->
     Divided(Divided(Divided(Divided(Divided(Divided(Divided(Divided(w,
       0 \in byte), 1 \in byte), 2 \in byte), 3 \in byte),
       4 \in byte), 5 \in byte), 6 \in byte), 7 \in byte)]

\* The remainder of the first n bytes.
Remainder(bytes, n) ==
  LET register[k \in Nat] ==
        IF k = 0 THEN 0..31 ELSE DividedByte(bytes[k])[register[k - 1]]
  IN  register[n]

-----------------------------------------------------------------------------
(* fpc_crc *)

\* crc32_table, its higher and its lower halves.
High == <<
  \h0000, \h7707, \hee0e, \h9909, \h076d, \h706a, \he963, \h9e64, \h0edb, \h79dc, \he0d5, \h97d2,
  \h09b6, \h7eb1, \he7b8, \h90bf, \h1db7, \h6ab0, \hf3b9, \h84be, \h1ada, \h6ddd, \hf4d4, \h83d3,
  \h136c, \h646b, \hfd62, \h8a65, \h1401, \h6306, \hfa0f, \h8d08, \h3b6e, \h4c69, \hd560, \ha267,
  \h3c03, \h4b04, \hd20d, \ha50a, \h35b5, \h42b2, \hdbbb, \hacbc, \h32d8, \h45df, \hdcd6, \habd1,
  \h26d9, \h51de, \hc8d7, \hbfd0, \h21b4, \h56b3, \hcfba, \hb8bd, \h2802, \h5f05, \hc60c, \hb10b,
  \h2f6f, \h5868, \hc161, \hb666, \h76dc, \h01db, \h98d2, \hefd5, \h71b1, \h06b6, \h9fbf, \he8b8,
  \h7807, \h0f00, \h9609, \he10e, \h7f6a, \h086d, \h9164, \he663, \h6b6b, \h1c6c, \h8565, \hf262,
  \h6c06, \h1b01, \h8208, \hf50f, \h65b0, \h12b7, \h8bbe, \hfcb9, \h62dd, \h15da, \h8cd3, \hfbd4,
  \h4db2, \h3ab5, \ha3bc, \hd4bb, \h4adf, \h3dd8, \ha4d1, \hd3d6, \h4369, \h346e, \had67, \hda60,
  \h4404, \h3303, \haa0a, \hdd0d, \h5005, \h2702, \hbe0b, \hc90c, \h5768, \h206f, \hb966, \hce61,
  \h5ede, \h29d9, \hb0d0, \hc7d7, \h59b3, \h2eb4, \hb7bd, \hc0ba, \hedb8, \h9abf, \h03b6, \h74b1,
  \head5, \h9dd2, \h04db, \h73dc, \he363, \h9464, \h0d6d, \h7a6a, \he40e, \h9309, \h0a00, \h7d07,
  \hf00f, \h8708, \h1e01, \h6906, \hf762, \h8065, \h196c, \h6e6b, \hfed4, \h89d3, \h10da, \h67dd,
  \hf9b9, \h8ebe, \h17b7, \h60b0, \hd6d6, \ha1d1, \h38d8, \h4fdf, \hd1bb, \ha6bc, \h3fb5, \h48b2,
  \hd80d, \haf0a, \h3603, \h4104, \hdf60, \ha867, \h316e, \h4669, \hcb61, \hbc66, \h256f, \h5268,
  \hcc0c, \hbb0b, \h2202, \h5505, \hc5ba, \hb2bd, \h2bb4, \h5cb3, \hc2d7, \hb5d0, \h2cd9, \h5bde,
  \h9b64, \hec63, \h756a, \h026d, \h9c09, \heb0e, \h7207, \h0500, \h95bf, \he2b8, \h7bb1, \h0cb6,
  \h92d2, \he5d5, \h7cdc, \h0bdb, \h86d3, \hf1d4, \h68dd, \h1fda, \h81be, \hf6b9, \h6fb0, \h18b7,
  \h8808, \hff0f, \h6606, \h1101, \h8f65, \hf862, \h616b, \h166c, \ha00a, \hd70d, \h4e04, \h3903,
  \ha767, \hd060, \h4969, \h3e6e, \haed1, \hd9d6, \h40df, \h37d8, \ha9bc, \hdebb, \h47b2, \h30b5,
  \hbdbd, \hcaba, \h53b3, \h24b4, \hbad0, \hcdd7, \h54de, \h23d9, \hb366, \hc461, \h5d68, \h2a6f,
  \hb40b, \hc30c, \h5a05, \h2d02>>

Low == <<
  \h0000, \h3096, \h612c, \h51ba, \hc419, \hf48f, \ha535, \h95a3, \h8832, \hb8a4, \he91e, \hd988,
  \h4c2b, \h7cbd, \h2d07, \h1d91, \h1064, \h20f2, \h7148, \h41de, \hd47d, \he4eb, \hb551, \h85c7,
  \h9856, \ha8c0, \hf97a, \hc9ec, \h5c4f, \h6cd9, \h3d63, \h0df5, \h20c8, \h105e, \h41e4, \h7172,
  \he4d1, \hd447, \h85fd, \hb56b, \ha8fa, \h986c, \hc9d6, \hf940, \h6ce3, \h5c75, \h0dcf, \h3d59,
  \h30ac, \h003a, \h5180, \h6116, \hf4b5, \hc423, \h9599, \ha50f, \hb89e, \h8808, \hd9b2, \he924,
  \h7c87, \h4c11, \h1dab, \h2d3d, \h4190, \h7106, \h20bc, \h102a, \h8589, \hb51f, \he4a5, \hd433,
  \hc9a2, \hf934, \ha88e, \h9818, \h0dbb, \h3d2d, \h6c97, \h5c01, \h51f4, \h6162, \h30d8, \h004e,
  \h95ed, \ha57b, \hf4c1, \hc457, \hd9c6, \he950, \hb8ea, \h887c, \h1ddf, \h2d49, \h7cf3, \h4c65,
  \h6158, \h51ce, \h0074, \h30e2, \ha541, \h95d7, \hc46d, \hf4fb, \he96a, \hd9fc, \h8846, \hb8d0,
  \h2d73, \h1de5, \h4c5f, \h7cc9, \h713c, \h41aa, \h1010, \h2086, \hb525, \h85b3, \hd409, \he49f,
  \hf90e, \hc998, \h9822, \ha8b4, \h3d17, \h0d81, \h5c3b, \h6cad, \h8320, \hb3b6, \he20c, \hd29a,
  \h4739, \h77af, \h2615, \h1683, \h0b12, \h3b84, \h6a3e, \h5aa8, \hcf0b, \hff9d, \hae27, \h9eb1,
  \h9344, \ha3d2, \hf268, \hc2fe, \h575d, \h67cb, \h3671, \h06e7, \h1b76, \h2be0, \h7a5a, \h4acc,
  \hdf6f, \heff9, \hbe43, \h8ed5, \ha3e8, \h937e, \hc2c4, \hf252, \h67f1, \h5767, \h06dd, \h364b,
  \h2bda, \h1b4c, \h4af6, \h7a60, \hefc3, \hdf55, \h8eef, \hbe79, \hb38c, \h831a, \hd2a0, \he236,
  \h7795, \h4703, \h16b9, \h262f, \h3bbe, \h0b28, \h5a92, \h6a04, \hffa7, \hcf31, \h9e8b, \hae1d,
  \hc2b0, \hf226, \ha39c, \h930a, \h06a9, \h363f, \h6785, \h5713, \h4a82, \h7a14, \h2bae, \h1b38,
  \h8e9b, \hbe0d, \hefb7, \hdf21, \hd2d4, \he242, \hb3f8, \h836e, \h16cd, \h265b, \h77e1, \h4777,
  \h5ae6, \h6a70, \h3bca, \h0b5c, \h9eff, \hae69, \hffd3, \hcf45, \he278, \hd2ee, \h8354, \hb3c2,
  \h2661, \h16f7, \h474d, \h77db, \h6a4a, \h5adc, \h0b66, \h3bf0, \hae53, \h9ec5, \hcf7f, \hffe9,
  \hf21c, \hc28a, \h9330, \ha3a6, \h3605, \h0693, \h5729, \h67bf, \h7a2e, \h4ab8, \h1b02, \h2b94,
  \hbe37, \h8ea1, \hdf1b, \hef8d>>

\* The bits of a half of an entry, and the entry of a byte.
Ones(half) == {k \in 0..15 : (half \div 2 ^ k) % 2 = 1}

crc32_table ==
  [byte \in Byte |->
     LET i == 1 + SumSet({2 ^ k : k \in byte})
     IN  Ones(Low[i]) \cup {16 + k : k \in Ones(High[i])}]

\* Each of the 256 words of the table is what its index, the low bits of a register,
\* comes to in eight bits.
ASSUME TableAssumption == \A byte \in Byte : crc32_table[byte] = DividedByte({})[byte]

\* crc ^ ~0U, before the loop and behind it.
Inverted(w) == SymDiff(w, 0..31)

\* The register at the first byte.
Preset == Inverted({})

\* crc >> 8.  (The first goes the other way, the second draws the sign after it.)
ShiftedUp(w) == {k + 8 : k \in w}
ShiftedSigned(w) == {k \in 0..31 : k + 8 \in w \/ (k > 23 /\ 31 \in w)}
Shifted(w) == {k \in 0..23 : k + 8 \in w}

\* (crc ^ *p++) & 0xFF.  (The first takes half of the table only.)
IndexHalf(w, byte) == SymDiff(w, byte) \cap (0..6)
Index(w, byte) == SymDiff(w, byte) \cap (0..7)

Begin(s, bytes, n) ==
  /\ side' = s
  /\ buf' = bytes
  /\ size' = n
  /\ crc' = Preset

\* while (size--)
More == size > 0

NextByte ==
  /\ side \in {"tx", "rx"}
  /\ More
  /\ crc' = SymDiff(crc32_table[Index(crc, buf[Len(buf) - size + 1])], Shifted(crc))
  /\ size' = size - 1
  /\ UNCHANGED <<side, buf, frame, read, passed>>

-----------------------------------------------------------------------------
(* _tx_link, _rx_link *)

\* A uint32_t in memory; the processor is little-endian.
Stored(w) == [i \in 1..4 |-> {k \in 0..7 : 8 * (i - 1) + k \in w}]

TxLink(body) ==
  /\ side = "checked"
  /\ Begin("tx", body, Len(body))
  /\ frame' = <<>> /\ read' = <<>> /\ passed' = FALSE

TxWrite ==
  /\ side = "tx" /\ ~More
  /\ frame' = buf \o Stored(Inverted(crc))
  /\ side' = "bus"
  /\ UNCHANGED <<buf, size, crc, read, passed>>

\* A burst: bit n and others less than 32 bits behind it are flipped, the lowest
\* bit of a byte first.
Flipped(f, n, burst) ==
  [i \in 1..Len(f) |-> SymDiff(f[i], {k \in 0..7 : 8 * (i - 1) + k - n \in burst})]

Zeros(n) == [i \in 1..n |-> {}]

\* What becomes of a frame that is damaged: a burst, or zeros if the module does not
\* drive the bus.
Damaged(f) ==
  {Zeros(Len(f))} \cup {Flipped(f, n, p) : n \in 0..(8 * Len(f) - 1), p \in Bursts}

RxLink ==
  /\ side = "bus"
  /\ \E f \in {frame} \cup (IF buf \in Disturbed THEN Damaged(frame) ELSE {}) :
       /\ read' = f
       /\ Begin("rx", SubSeq(f, 1, Len(f) - 4), Len(f) - 4)
  /\ UNCHANGED <<frame, passed>>

RxCheck ==
  /\ side = "rx" /\ ~More
  /\ passed' = (Stored(Inverted(crc)) = SubSeq(read, Len(read) - 3, Len(read)))
  /\ side' = "checked"
  /\ UNCHANGED <<buf, size, crc, frame, read>>

CrcInit ==
  /\ side = "checked"
  /\ buf = <<>> /\ size = 0 /\ crc = Preset
  /\ frame = <<>> /\ read = <<>> /\ passed = TRUE

CrcNext ==
  \/ NextByte
  \/ \E body \in Bodies : TxLink(body)
  \/ TxWrite
  \/ RxLink
  \/ RxCheck

CrcSpec == CrcInit /\ [][CrcNext]_crcVars

\* Bodies are not empty and no longer than a frame holds.  A division of zeros comes
\* back to its beginning only after 2^32 - 1 of them: no body is that long.
ASSUME CrcAssumption ==
  /\ MaxBody \in Nat
  /\ \A n \in 1..MaxBody : Remainder(Zeros(n), n) # Preset
  /\ \A body \in Bodies : body \in Seq(Byte) /\ Len(body) \in 1..MaxBody
  /\ Disturbed \subseteq Bodies
  /\ \A p \in Bursts : 0 \in p /\ p \subseteq 0..31

-----------------------------------------------------------------------------
(* Properties *)

\* The loop stays within the buffer and the register within 32 bits.
CrcTypeOK ==
  /\ side \in {"tx", "bus", "rx", "checked"}
  /\ buf \in Seq(Byte) /\ frame \in Seq(Byte) /\ read \in Seq(Byte)
  /\ size \in 0..Len(buf)
  /\ crc \in Word32
  /\ passed \in BOOLEAN

\* After every byte the register is the remainder of the bytes so far, in _tx_link
\* and in _rx_link: crc32_table is used for the right byte and shifted right
\* (fpc_crc.c 76-86).
RegisterIsRemainder ==
  side \in {"tx", "rx"} => crc = Remainder(buf, Len(buf) - size)

\* _rx_link takes a frame if and only if it is the one that was written: a burst of
\* up to 32 bits is noticed wherever it lies, also across the end of the payload
\* into the sum, and so is a body of zeros (hcp_tiny.c 226-233, 286-287).
PassesIffIntact == side = "checked" => (passed <=> read = frame)

=============================================================================
