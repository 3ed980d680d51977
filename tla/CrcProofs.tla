------------------------------ MODULE CrcProofs ------------------------------
(***************************************************************************)
(* Proofs about Crc for bodies of every content and of every length up to  *)
(* MaxBody, and for every burst of damage: the register of fpc_crc is the  *)
(* remainder of division by the generator, and a frame passes _rx_link if  *)
(* and only if it is the one that was written.                             *)
(*                                                                         *)
(* What TLC evaluates, the 256 words of the table and the remainders of    *)
(* zeros, comes from the two assumptions of Crc.  The rest is algebra.     *)
(* Taking in a zero bit (Zero) is linear and loses nothing, and it moves a *)
(* word without its lowest bit down by one.  From the first follows that   *)
(* the table, looked up with the low byte, and a shift do what eight bits  *)
(* do; from the second, that the register of a damaged frame, once it      *)
(* differs from the one of the frame that was written by what the burst    *)
(* has left to do, never becomes equal to it again.                        *)
(***************************************************************************)
EXTENDS Crc, SequenceTheorems, WellFoundedInduction, TLAPS

-----------------------------------------------------------------------------
(* Words *)

\* What ^ does to words.
LEMMA WordOfXor ==
  ASSUME NEW a \in Word32, NEW b \in Word32
  PROVE  SymDiff(a, b) \in Word32
BY DEF SymDiff, Word32

LEMMA XorCommutes == \A a, b : SymDiff(a, b) = SymDiff(b, a)
BY DEF SymDiff

LEMMA XorAssociates ==
  \A a, b, c : SymDiff(SymDiff(a, b), c) = SymDiff(a, SymDiff(b, c))
BY DEF SymDiff

LEMMA XorCancels ==
  /\ \A a : SymDiff(a, a) = {} /\ SymDiff(a, {}) = a
  /\ \A a, b : SymDiff(a, b) = {} <=> a = b
BY DEF SymDiff

LEMMA XorSwaps ==
  \A a, b, c, d : SymDiff(SymDiff(a, b), SymDiff(c, d))
                    = SymDiff(SymDiff(a, c), SymDiff(b, d))
BY DEF SymDiff

\* A zero bit is taken in.
Zero(w) == Divided(w, FALSE)

LEMMA HalvedIs ==
  ASSUME NEW w, NEW k
  PROVE  k \in Halved(w) <=> k \in 0..30 /\ k + 1 \in w
BY DEF Halved

LEMMA ZeroIs ==
  ASSUME NEW w
  PROVE  /\ 0 \in w => Zero(w) = SymDiff(Halved(w), Generator)
         /\ 0 \notin w => Zero(w) = Halved(w)
<1>1. Zero(w) = IF FALSE # (0 \in w) THEN SymDiff(Halved(w), Generator) ELSE Halved(w)
  BY DEF Zero, Divided
<1>2. CASE 0 \in w
  <2>1. (0 \in w) = TRUE  BY <1>2
  <2> QED  BY <2>1, <1>1
<1>3. CASE 0 \notin w
  <2>1. (0 \in w) = FALSE  BY <1>3
  <2> QED  BY <2>1, <1>1
<1> QED  BY <1>2, <1>3

\* Any bit is taken in by changing the lowest bit of the register first.
LEMMA DividedIsZero ==
  ASSUME NEW w, NEW bit \in BOOLEAN
  PROVE  Divided(w, bit) = Zero(SymDiff(w, IF bit THEN {0} ELSE {}))
<1> DEFINE v == SymDiff(w, IF bit THEN {0} ELSE {})
<1>1. 0 \in v <=> (bit # (0 \in w))  BY DEF SymDiff
<1>2. Halved(v) = Halved(w)
  <2>1. \A k \in 0..30 : k + 1 # 0  OBVIOUS
  <2>2. \A k \in 0..30 : k + 1 \in v <=> k + 1 \in w  BY <2>1 DEF SymDiff
  <2> HIDE DEF v
  <2> QED  BY <2>2 DEF Halved
<1> HIDE DEF v
<1>3. Zero(v) = Divided(w, bit)
  <2>1. CASE 0 \in v  BY <2>1, <1>1, <1>2, ZeroIs DEF Divided
  <2>2. CASE 0 \notin v  BY <2>2, <1>1, <1>2, ZeroIs DEF Divided
  <2> QED  BY <2>1, <2>2
<1> QED  BY <1>3 DEF v

LEMMA HalvedLinear ==
  ASSUME NEW a, NEW b
  PROVE  Halved(SymDiff(a, b)) = SymDiff(Halved(a), Halved(b))
BY DEF Halved, SymDiff

LEMMA ZeroLinear ==
  ASSUME NEW a, NEW b
  PROVE  Zero(SymDiff(a, b)) = SymDiff(Zero(a), Zero(b))
<1>1. 0 \in SymDiff(a, b) <=> ((0 \in a) # (0 \in b))  BY DEF SymDiff
<1>2. CASE 0 \in a /\ 0 \in b
  <2>1. SymDiff(SymDiff(Halved(a), Generator), SymDiff(Halved(b), Generator))
          = SymDiff(Halved(a), Halved(b))
    BY DEF SymDiff
  <2> QED  BY <1>1, <1>2, <2>1, ZeroIs, HalvedLinear
<1>3. CASE 0 \in a /\ 0 \notin b
  <2>1. SymDiff(SymDiff(Halved(a), Generator), Halved(b))
          = SymDiff(SymDiff(Halved(a), Halved(b)), Generator)
    BY DEF SymDiff
  <2> QED  BY <1>1, <1>3, <2>1, ZeroIs, HalvedLinear
<1>4. CASE 0 \notin a /\ 0 \in b
  <2>1. SymDiff(Halved(a), SymDiff(Halved(b), Generator))
          = SymDiff(SymDiff(Halved(a), Halved(b)), Generator)
    BY DEF SymDiff
  <2> QED  BY <1>1, <1>4, <2>1, ZeroIs, HalvedLinear
<1>5. CASE 0 \notin a /\ 0 \notin b
  BY <1>1, <1>5, ZeroIs, HalvedLinear
<1> QED  BY <1>2, <1>3, <1>4, <1>5

LEMMA ZeroWord ==
  ASSUME NEW w
  PROVE  Zero(w) \in Word32
<1>1. Generator \subseteq 0..31  BY DEF Generator
<1>2. Halved(w) \subseteq 0..31  BY DEF Halved
<1> QED  BY <1>1, <1>2, ZeroIs DEF Word32, SymDiff

LEMMA DividedWord ==
  ASSUME NEW w, NEW bit \in BOOLEAN
  PROVE  Divided(w, bit) \in Word32
BY DividedIsZero, ZeroWord

\* No word but zero becomes zero: the highest bit of the generator is set.
LEMMA ZeroKeepsDifference ==
  ASSUME NEW w \in Word32
  PROVE  Zero(w) = {} <=> w = {}
<1>1. ASSUME 0 \in w PROVE Zero(w) # {}
  <2>1. 31 \in Generator  BY DEF Generator
  <2>2. 31 \notin Halved(w)  BY DEF Halved
  <2>3. 31 \in SymDiff(Halved(w), Generator)  BY <2>1, <2>2 DEF SymDiff
  <2> QED  BY <1>1, <2>3, ZeroIs
<1>2. ASSUME 0 \notin w, w # {} PROVE Zero(w) # {}
  <2>1. PICK k \in w : TRUE  BY <1>2
  <2>2. k \in 0..31 /\ k # 0  BY <1>2, <2>1 DEF Word32
  <2>3. k - 1 \in 0..30 /\ (k - 1) + 1 = k  BY <2>2
  <2>4. k - 1 \in Halved(w)  BY <2>1, <2>3, HalvedIs
  <2> QED  BY <1>2, <2>4, ZeroIs
<1>3. ASSUME w = {} PROVE Zero(w) = {}
  <2>1. Halved(w) = {}  BY <1>3 DEF Halved
  <2> QED  BY <1>3, <2>1, ZeroIs
<1> QED  BY <1>1, <1>2, <1>3

-----------------------------------------------------------------------------
(* Bytes *)

\* A bit of e is taken in, the others move down to be the next ones: it makes no
\* difference whether e is changed into the register before or after.
LEMMA TakenEarly ==
  ASSUME NEW w, NEW e \in Word32
  PROVE  SymDiff(Divided(w, 0 \in e), Halved(e)) = Zero(SymDiff(w, e))
<1> DEFINE low == IF 0 \in e THEN {0} ELSE {}
           rest == e \ {0}
<1>1. e = SymDiff(low, rest)  BY DEF SymDiff
<1>2. Halved(rest) = Halved(e)
  <2>1. \A k \in 0..30 : k + 1 # 0  OBVIOUS
  <2> QED  BY <2>1 DEF Halved
<1>3. Zero(rest) = Halved(rest)
  <2>1. 0 \notin rest  OBVIOUS
  <2> QED  BY <2>1, ZeroIs
<1>4. Divided(w, 0 \in e) = Zero(SymDiff(w, low))
  <2>1. (0 \in e) \in BOOLEAN  OBVIOUS
  <2>2. CASE 0 \in e
    <3>1. (0 \in e) = TRUE /\ low = {0}  BY <2>2
    <3>2. Divided(w, TRUE) = Zero(SymDiff(w, {0}))  BY DividedIsZero
    <3> QED  BY <3>1, <3>2
  <2>3. CASE 0 \notin e
    <3>1. (0 \in e) = FALSE /\ low = {}  BY <2>3
    <3>2. Divided(w, FALSE) = Zero(SymDiff(w, {}))  BY DividedIsZero
    <3> QED  BY <3>1, <3>2
  <2> QED  BY <2>2, <2>3
<1>5. SymDiff(w, e) = SymDiff(SymDiff(w, low), rest)
  <2> HIDE DEF low, rest
  <2> QED  BY <1>1, XorAssociates
<1>6. Zero(SymDiff(w, e)) = SymDiff(Zero(SymDiff(w, low)), Zero(rest))
  <2> HIDE DEF low, rest
  <2> QED  BY <1>5, ZeroLinear
<1> HIDE DEF low, rest
<1> QED  BY <1>2, <1>3, <1>4, <1>6

\* A byte is taken in bit by bit.
LEMMA ByteRun ==
  ASSUME NEW w \in Word32, NEW byte \in Byte
  PROVE  \E g \in [0..8 -> Word32] :
           /\ g[0] = w /\ g[8] = DividedByte(byte)[w]
           /\ \A j \in 0..7 : g[j + 1] = Divided(g[j], j \in byte)
<1>0. \A v, j : Divided(v, j \in byte) \in Word32
  <2> TAKE v, j
  <2>1. (j \in byte) \in BOOLEAN  OBVIOUS
  <2> QED  BY <2>1, DividedWord
<1>1. PICK d1 \in Word32 : d1 = Divided(w, 0 \in byte)  BY <1>0
<1>2. PICK d2 \in Word32 : d2 = Divided(d1, 1 \in byte)  BY <1>0
<1>3. PICK d3 \in Word32 : d3 = Divided(d2, 2 \in byte)  BY <1>0
<1>4. PICK d4 \in Word32 : d4 = Divided(d3, 3 \in byte)  BY <1>0
<1>5. PICK d5 \in Word32 : d5 = Divided(d4, 4 \in byte)  BY <1>0
<1>6. PICK d6 \in Word32 : d6 = Divided(d5, 5 \in byte)  BY <1>0
<1>7. PICK d7 \in Word32 : d7 = Divided(d6, 6 \in byte)  BY <1>0
<1>8. PICK d8 \in Word32 : d8 = Divided(d7, 7 \in byte)  BY <1>0
<1>9. DividedByte(byte)[w] = d8
  BY <1>1, <1>2, <1>3, <1>4, <1>5, <1>6, <1>7, <1>8 DEF DividedByte
<1> DEFINE g == [j \in 0..8 |->
                   IF j < 4 THEN IF j = 0 THEN w ELSE IF j = 1 THEN d1
                                 ELSE IF j = 2 THEN d2 ELSE d3
                   ELSE IF j = 4 THEN d4 ELSE IF j = 5 THEN d5
                        ELSE IF j = 6 THEN d6 ELSE IF j = 7 THEN d7 ELSE d8]
<1>10. /\ g[0] = w /\ g[1] = d1 /\ g[2] = d2 /\ g[3] = d3 /\ g[4] = d4
       /\ g[5] = d5 /\ g[6] = d6 /\ g[7] = d7 /\ g[8] = d8
  OBVIOUS
<1>11. g \in [0..8 -> Word32]  OBVIOUS
<1> HIDE DEF g
<1>12. ASSUME NEW j \in 0..7 PROVE g[j + 1] = Divided(g[j], j \in byte)
  <2>1. CASE j = 0  BY <2>1, <1>1, <1>10
  <2>2. CASE j = 1  BY <2>2, <1>2, <1>10
  <2>3. CASE j = 2  BY <2>3, <1>3, <1>10
  <2>4. CASE j = 3  BY <2>4, <1>4, <1>10
  <2>5. CASE j = 4  BY <2>5, <1>5, <1>10
  <2>6. CASE j = 5  BY <2>6, <1>6, <1>10
  <2>7. CASE j = 6  BY <2>7, <1>7, <1>10
  <2>8. CASE j = 7  BY <2>8, <1>8, <1>10
  <2> QED  BY <2>1, <2>2, <2>3, <2>4, <2>5, <2>6, <2>7, <2>8
<1> QED  BY <1>9, <1>10, <1>11, <1>12

LEMMA ByteWord ==
  ASSUME NEW w \in Word32, NEW byte \in Byte
  PROVE  DividedByte(byte)[w] \in Word32
<1>1. PICK g \in [0..8 -> Word32] : g[8] = DividedByte(byte)[w]  BY ByteRun
<1>2. 8 \in 0..8  OBVIOUS
<1> QED  BY <1>1, <1>2

\* An empty byte is eight zero bits.
LEMMA EightZeros ==
  ASSUME NEW w \in Word32
  PROVE  DividedByte({})[w] = Zero(Zero(Zero(Zero(Zero(Zero(Zero(Zero(w))))))))
<1>1. {} \in Byte  BY DEF Byte
<1>2. PICK g \in [0..8 -> Word32] :
        /\ g[0] = w /\ g[8] = DividedByte({})[w]
        /\ \A j \in 0..7 : g[j + 1] = Divided(g[j], j \in {})
  BY <1>1, ByteRun
<1>3. ASSUME NEW j \in 0..7 PROVE g[j + 1] = Zero(g[j])
  <2>1. (j \in {}) = FALSE  OBVIOUS
  <2>2. g[j + 1] = Divided(g[j], j \in {})  BY <1>2
  <2> QED  BY <2>1, <2>2 DEF Zero
<1>4. /\ g[1] = Zero(g[0]) /\ g[2] = Zero(g[1]) /\ g[3] = Zero(g[2]) /\ g[4] = Zero(g[3])
      /\ g[5] = Zero(g[4]) /\ g[6] = Zero(g[5]) /\ g[7] = Zero(g[6]) /\ g[8] = Zero(g[7])
  <2>1. /\ 0 + 1 = 1 /\ 1 + 1 = 2 /\ 2 + 1 = 3 /\ 3 + 1 = 4 /\ 4 + 1 = 5 /\ 5 + 1 = 6
        /\ 6 + 1 = 7 /\ 7 + 1 = 8
    OBVIOUS
  <2>2. /\ 0 \in 0..7 /\ 1 \in 0..7 /\ 2 \in 0..7 /\ 3 \in 0..7 /\ 4 \in 0..7
        /\ 5 \in 0..7 /\ 6 \in 0..7 /\ 7 \in 0..7
    OBVIOUS
  <2>3. g[1] = Zero(g[0]) /\ g[2] = Zero(g[1])  BY <1>3, <2>1, <2>2
  <2>4. g[3] = Zero(g[2]) /\ g[4] = Zero(g[3])  BY <1>3, <2>1, <2>2
  <2>5. g[5] = Zero(g[4]) /\ g[6] = Zero(g[5])  BY <1>3, <2>1, <2>2
  <2>6. g[7] = Zero(g[6]) /\ g[8] = Zero(g[7])  BY <1>3, <2>1, <2>2
  <2> QED  BY <2>3, <2>4, <2>5, <2>6
<1> QED  BY <1>2, <1>4

\* A byte is taken in by changing the register first, as fpc_crc does.
LEMMA ByteFirst ==
  ASSUME NEW w \in Word32, NEW byte \in Byte
  PROVE  DividedByte(byte)[w] = DividedByte({})[SymDiff(w, byte)]
<1> DEFINE Left(j) == {i \in 0..7 : i + j \in byte}
<1>1. PICK g \in [0..8 -> Word32] :
        /\ g[0] = w /\ g[8] = DividedByte(byte)[w]
        /\ \A j \in 0..7 : g[j + 1] = Divided(g[j], j \in byte)
  BY ByteRun
<1>2. byte \subseteq 0..7  BY DEF Byte
<1>3. byte \in Word32 /\ SymDiff(w, byte) \in Word32
  <2>1. byte \in Word32  BY <1>2 DEF Word32
  <2> QED  BY <2>1, WordOfXor
<1>4. ASSUME NEW j \in 0..7
      PROVE  SymDiff(g[j + 1], Left(j + 1)) = Zero(SymDiff(g[j], Left(j)))
  <2>1. Left(j) \in Word32  BY DEF Word32
  <2>2. 0 \in Left(j) <=> j \in byte  OBVIOUS
  <2>3. Halved(Left(j)) = Left(j + 1)
    <3>1. ASSUME NEW k PROVE k \in Halved(Left(j)) <=> k \in Left(j + 1)
      <4>1. k \in Halved(Left(j)) <=> k \in 0..30 /\ k + 1 \in 0..7 /\ (k + 1) + j \in byte
        BY HalvedIs
      <4>2. ASSUME NEW i \in 0..7 PROVE (i + 1) + j = i + (j + 1)  OBVIOUS
      <4>3. ASSUME k \in Halved(Left(j)) PROVE k \in Left(j + 1)
        BY <4>1, <4>2, <4>3
      <4>4. ASSUME k \in Left(j + 1) PROVE k \in Halved(Left(j))
        <5>1. k \in 0..7 /\ k + (j + 1) \in byte  BY <4>4
        <5>2. k + (j + 1) \in 0..7  BY <5>1, <1>2
        <5>3. k \in 0..30 /\ k + 1 \in 0..7  BY <5>1, <5>2
        <5> QED  BY <4>1, <4>2, <5>1, <5>3
      <4> QED  BY <4>3, <4>4
    <3> QED  BY <3>1 DEF Halved
  <2>4. g[j + 1] = Divided(g[j], 0 \in Left(j))
    <3>1. (0 \in Left(j)) = (j \in byte)  BY <2>2
    <3> QED  BY <1>1, <3>1
  <2> HIDE DEF Left
  <2> QED  BY <2>1, <2>3, <2>4, TakenEarly
<1>5. Left(0) = byte /\ Left(8) = {}
  <2>1. Left(0) = byte
    <3>1. \A i \in 0..7 : i + 0 = i  OBVIOUS
    <3> QED  BY <3>1, <1>2
  <2>2. \A i \in 0..7 : i + 8 \notin 0..7  OBVIOUS
  <2>3. Left(8) = {}  BY <2>2, <1>2
  <2> QED  BY <2>1, <2>3
<1> DEFINE x(j) == SymDiff(g[j], Left(j))
<1>6. ASSUME NEW j \in 0..7 PROVE x(j + 1) = Zero(x(j))  BY <1>4
<1>7. x(0) = SymDiff(w, byte) /\ x(8) = DividedByte(byte)[w]
  BY <1>1, <1>5, XorCancels
<1> HIDE DEF x, Left
<1>8. /\ x(1) = Zero(x(0)) /\ x(2) = Zero(x(1)) /\ x(3) = Zero(x(2)) /\ x(4) = Zero(x(3))
      /\ x(5) = Zero(x(4)) /\ x(6) = Zero(x(5)) /\ x(7) = Zero(x(6)) /\ x(8) = Zero(x(7))
  <2>1. /\ 0 + 1 = 1 /\ 1 + 1 = 2 /\ 2 + 1 = 3 /\ 3 + 1 = 4 /\ 4 + 1 = 5 /\ 5 + 1 = 6
        /\ 6 + 1 = 7 /\ 7 + 1 = 8
    OBVIOUS
  <2>2. /\ 0 \in 0..7 /\ 1 \in 0..7 /\ 2 \in 0..7 /\ 3 \in 0..7 /\ 4 \in 0..7
        /\ 5 \in 0..7 /\ 6 \in 0..7 /\ 7 \in 0..7
    OBVIOUS
  <2>3. x(1) = Zero(x(0)) /\ x(2) = Zero(x(1))  BY <1>6, <2>1, <2>2
  <2>4. x(3) = Zero(x(2)) /\ x(4) = Zero(x(3))  BY <1>6, <2>1, <2>2
  <2>5. x(5) = Zero(x(4)) /\ x(6) = Zero(x(5))  BY <1>6, <2>1, <2>2
  <2>6. x(7) = Zero(x(6)) /\ x(8) = Zero(x(7))  BY <1>6, <2>1, <2>2
  <2> QED  BY <2>3, <2>4, <2>5, <2>6
<1> QED  BY <1>3, <1>7, <1>8, EightZeros

LEMMA ByteLinear ==
  ASSUME NEW a \in Word32, NEW b \in Word32
  PROVE  DividedByte({})[SymDiff(a, b)] = SymDiff(DividedByte({})[a], DividedByte({})[b])
<1>1. SymDiff(a, b) \in Word32  BY WordOfXor
<1>2. \A x, y : Zero(SymDiff(x, y)) = SymDiff(Zero(x), Zero(y))  BY ZeroLinear
<1> QED  BY <1>1, <1>2, EightZeros

\* A word without its low byte is shifted.
LEMMA ByteShift ==
  ASSUME NEW w \in Word32, w \cap (0..7) = {}
  PROVE  DividedByte({})[w] = Shifted(w)
<1> DEFINE At(j) == {k \in 0..(31 - j) : k + j \in w}
<1>1. ASSUME NEW j \in 0..7 PROVE Zero(At(j)) = At(j + 1)
  <2>1. 0 \notin At(j)  OBVIOUS
  <2>2. Halved(At(j)) = At(j + 1)
    <3>1. ASSUME NEW k PROVE k \in Halved(At(j)) <=> k \in At(j + 1)
      <4>1. k \in Halved(At(j)) <=> k \in 0..30 /\ k + 1 \in 0..(31 - j) /\ (k + 1) + j \in w
        BY HalvedIs
      <4>2. ASSUME NEW i \in 0..30 PROVE (i + 1) + j = i + (j + 1)  OBVIOUS
      <4>3. k \in 0..30 /\ k + 1 \in 0..(31 - j) <=> k \in 0..(31 - (j + 1))  OBVIOUS
      <4>4. k \in 0..(31 - (j + 1)) => k \in 0..30  OBVIOUS
      <4> QED  BY <4>1, <4>2, <4>3, <4>4
    <3> QED  BY <3>1 DEF Halved
  <2> QED  BY <2>1, <2>2, ZeroIs
<1>2. At(0) = w /\ At(8) = Shifted(w)
  <2>1. At(0) = w
    <3>1. \A k \in 0..31 : k + 0 = k  OBVIOUS
    <3>2. w \subseteq 0..31 /\ 31 - 0 = 31  BY DEF Word32
    <3> QED  BY <3>1, <3>2
  <2>2. At(8) = Shifted(w)
    <3>1. 31 - 8 = 23  OBVIOUS
    <3> QED  BY <3>1 DEF Shifted
  <2> QED  BY <2>1, <2>2
<1> HIDE DEF At
<1>3. /\ At(1) = Zero(At(0)) /\ At(2) = Zero(At(1)) /\ At(3) = Zero(At(2))
      /\ At(4) = Zero(At(3)) /\ At(5) = Zero(At(4)) /\ At(6) = Zero(At(5))
      /\ At(7) = Zero(At(6)) /\ At(8) = Zero(At(7))
  <2>1. /\ 0 + 1 = 1 /\ 1 + 1 = 2 /\ 2 + 1 = 3 /\ 3 + 1 = 4 /\ 4 + 1 = 5 /\ 5 + 1 = 6
        /\ 6 + 1 = 7 /\ 7 + 1 = 8
    OBVIOUS
  <2>2. /\ 0 \in 0..7 /\ 1 \in 0..7 /\ 2 \in 0..7 /\ 3 \in 0..7 /\ 4 \in 0..7
        /\ 5 \in 0..7 /\ 6 \in 0..7 /\ 7 \in 0..7
    OBVIOUS
  <2>3. At(1) = Zero(At(0)) /\ At(2) = Zero(At(1))  BY <1>1, <2>1, <2>2
  <2>4. At(3) = Zero(At(2)) /\ At(4) = Zero(At(3))  BY <1>1, <2>1, <2>2
  <2>5. At(5) = Zero(At(4)) /\ At(6) = Zero(At(5))  BY <1>1, <2>1, <2>2
  <2>6. At(7) = Zero(At(6)) /\ At(8) = Zero(At(7))  BY <1>1, <2>1, <2>2
  <2> QED  BY <2>3, <2>4, <2>5, <2>6
<1> QED  BY <1>2, <1>3, EightZeros

\* A turn of the loop of fpc_crc takes a byte in.
LEMMA TableStep ==
  ASSUME NEW w \in Word32, NEW byte \in Byte
  PROVE  SymDiff(crc32_table[Index(w, byte)], Shifted(w)) = DividedByte(byte)[w]
<1> DEFINE v == SymDiff(w, byte)
           low == v \cap (0..7)
           high == v \ (0..7)
<1>1. byte \subseteq 0..7 /\ byte \in Word32  BY DEF Byte, Word32
<1>2. v \in Word32  BY <1>1, WordOfXor
<1>3. low \in Byte /\ low \in Word32 /\ high \in Word32
  BY <1>2 DEF Byte, Word32
<1>4. Index(w, byte) = low  BY DEF Index
<1>5. v = SymDiff(low, high) /\ high \cap (0..7) = {}  BY DEF SymDiff
<1>6. Shifted(high) = Shifted(w)
  <2>1. \A k \in 0..23 : k + 8 \notin 0..7  OBVIOUS
  <2>2. \A k \in 0..23 : k + 8 \in high <=> k + 8 \in w  BY <2>1, <1>1 DEF SymDiff
  <2> HIDE DEF high
  <2> QED  BY <2>2 DEF Shifted
<1> HIDE DEF low, high
<1>7. crc32_table[low] = DividedByte({})[low]  BY <1>3, TableAssumption
<1>8. Shifted(w) = DividedByte({})[high]  BY <1>3, <1>5, <1>6, ByteShift
<1>9. SymDiff(DividedByte({})[low], DividedByte({})[high]) = DividedByte({})[v]
  BY <1>3, <1>5, ByteLinear
<1>10. DividedByte(byte)[w] = DividedByte({})[v]  BY ByteFirst
<1> QED  BY <1>4, <1>7, <1>8, <1>9, <1>10

-----------------------------------------------------------------------------
(* Numbers *)

\* A set of numbers that is not empty has a least one.
LEMMA LeastNumber ==
  ASSUME NEW S, S \subseteq Nat, S # {}
  PROVE  \E m \in S : \A k \in S : m <= k
<1> DEFINE R == OpToRel(<, Nat)
<1>1. IsWellFoundedOn(R, Nat)  BY NatLessThanWellFounded
<1>2. PICK m \in S : \A k \in S : ~(<<k, m>> \in R)
  <2> HIDE DEF R
  <2> QED  BY <1>1, WFMin
<1>3. ASSUME NEW k \in S, k < m PROVE FALSE
  <2>1. k \in Nat /\ m \in Nat  OBVIOUS
  <2>2. <<k, m>> \in R  BY <2>1, <1>3 DEF OpToRel
  <2> QED  BY <2>2, <1>2
<1>4. ASSUME NEW k \in S PROVE m <= k
  <2>1. k \in Nat /\ m \in Nat  OBVIOUS
  <2> QED  BY <2>1, <1>3
<1> QED  BY <1>4

\* A set that has 0, and with a number the next one, has every number.
LEMMA EveryNumber ==
  ASSUME NEW T, 0 \in T, \A n \in Nat : n \in T => n + 1 \in T
  PROVE  Nat \subseteq T
<1> DEFINE S == Nat \ T
<1> SUFFICES ASSUME S # {} PROVE FALSE  OBVIOUS
<1>1. PICK m \in S : \A k \in S : m <= k
  <2>1. S \subseteq Nat  OBVIOUS
  <2> HIDE DEF S
  <2> QED  BY <2>1, LeastNumber
<1>2. m \in Nat /\ m \notin T /\ m # 0  OBVIOUS
<1>3. m - 1 \in Nat /\ m - 1 \in T
  <2>1. m - 1 \in Nat /\ ~(m <= m - 1)  BY <1>2
  <2> QED  BY <2>1, <1>1
<1>4. m - 1 + 1 = m  BY <1>2
<1> QED  BY <1>2, <1>3, <1>4

-----------------------------------------------------------------------------
(* The remainder *)

\* A division goes through the registers of g, up to byte n.
IsDivision(g, bytes, n) ==
  /\ g = [k \in 0..n |-> g[k]]
  /\ g[0] = 0..31
  /\ \A k \in 1..n : g[k] = DividedByte(bytes[k])[g[k - 1]]

LEMMA DivisionExists ==
  ASSUME NEW bytes, NEW n \in Nat
  PROVE  \E g : IsDivision(g, bytes, n)
<1> DEFINE T == {m \in Nat : \E g : IsDivision(g, bytes, m)}
<1>1. 0 \in T
  <2> DEFINE g == [k \in 0..0 |-> 0..31]
  <2>1. g = [k \in 0..0 |-> g[k]] /\ g[0] = 0..31 /\ 1..0 = {}  OBVIOUS
  <2> HIDE DEF g
  <2>2. IsDivision(g, bytes, 0)  BY <2>1 DEF IsDivision
  <2> QED  BY <2>2
<1>2. ASSUME NEW m \in Nat, m \in T PROVE m + 1 \in T
  <2>1. PICK g : IsDivision(g, bytes, m)  BY <1>2
  <2> DEFINE h == [k \in 0..(m + 1) |->
                     IF k <= m THEN g[k] ELSE DividedByte(bytes[k])[g[m]]]
  <2>2. \A k \in 0..m : h[k] = g[k]  OBVIOUS
  <2>3. h[m + 1] = DividedByte(bytes[m + 1])[g[m]]
    <3>1. m + 1 \in 0..(m + 1) /\ ~(m + 1 <= m)  OBVIOUS
    <3> QED  BY <3>1
  <2>4. h = [k \in 0..(m + 1) |-> h[k]]  OBVIOUS
  <2> HIDE DEF h
  <2>5. h[0] = 0..31
    <3>1. 0 \in 0..m  OBVIOUS
    <3> QED  BY <3>1, <2>1, <2>2 DEF IsDivision
  <2>6. ASSUME NEW k \in 1..(m + 1) PROVE h[k] = DividedByte(bytes[k])[h[k - 1]]
    <3>1. CASE k = m + 1
      <4>1. k - 1 = m /\ m \in 0..m  BY <3>1
      <4> QED  BY <3>1, <4>1, <2>2, <2>3
    <3>2. CASE k # m + 1
      <4>1. k \in 1..m /\ k \in 0..m /\ k - 1 \in 0..m  BY <3>2
      <4> QED  BY <4>1, <2>1, <2>2 DEF IsDivision
    <3> QED  BY <3>1, <3>2
  <2>7. IsDivision(h, bytes, m + 1)  BY <2>4, <2>5, <2>6 DEF IsDivision
  <2> QED  BY <2>7
<1> HIDE DEF T
<1>3. Nat \subseteq T  BY <1>1, <1>2, EveryNumber
<1> QED  BY <1>3 DEF T

\* There is one only.
LEMMA DivisionUnique ==
  ASSUME NEW bytes, NEW m \in Nat, NEW n \in Nat, NEW g, NEW h,
         IsDivision(g, bytes, m), IsDivision(h, bytes, n)
  PROVE  \A k \in Nat : k <= m /\ k <= n => g[k] = h[k]
<1> DEFINE T == {k \in Nat : k <= m /\ k <= n => g[k] = h[k]}
<1>1. 0 \in T  BY DEF IsDivision
<1>2. ASSUME NEW k \in Nat, k \in T PROVE k + 1 \in T
  <2> SUFFICES ASSUME k + 1 <= m, k + 1 <= n PROVE g[k + 1] = h[k + 1]
    OBVIOUS
  <2>1. k + 1 \in 1..m /\ k + 1 \in 1..n /\ (k + 1) - 1 = k /\ k <= m /\ k <= n
    OBVIOUS
  <2>2. g[k] = h[k]  BY <1>2, <2>1
  <2>3. g[k + 1] = DividedByte(bytes[k + 1])[g[(k + 1) - 1]]  BY <2>1 DEF IsDivision
  <2>4. h[k + 1] = DividedByte(bytes[k + 1])[h[(k + 1) - 1]]  BY <2>1 DEF IsDivision
  <2> QED  BY <2>1, <2>2, <2>3, <2>4
<1> HIDE DEF T
<1>3. Nat \subseteq T  BY <1>1, <1>2, EveryNumber
<1> QED  BY <1>3 DEF T

\* What the definition of Remainder comes to.
LEMMA RemainderIs ==
  ASSUME NEW bytes
  PROVE  /\ Remainder(bytes, 0) = 0..31
         /\ \A n \in Nat : Remainder(bytes, n + 1)
                             = DividedByte(bytes[n + 1])[Remainder(bytes, n)]
<1> DEFINE division(n) == CHOOSE g : IsDivision(g, bytes, n)
           r == [n \in Nat |-> division(n)[n]]
           step(s) == [k \in Nat |->
                         IF k = 0 THEN 0..31 ELSE DividedByte(bytes[k])[s[k - 1]]]
           register == CHOOSE s : s = step(s)
<1>1. ASSUME NEW n \in Nat PROVE IsDivision(division(n), bytes, n)
  BY DivisionExists
<1>2. r[0] = 0..31
  <2> HIDE DEF division
  <2> QED  BY <1>1 DEF IsDivision
<1>3. ASSUME NEW n \in Nat, n # 0 PROVE r[n] = DividedByte(bytes[n])[r[n - 1]]
  <2>1. n - 1 \in Nat /\ n - 1 <= n /\ n - 1 <= n - 1 /\ n \in 1..n  BY <1>3
  <2>2. IsDivision(division(n), bytes, n) /\ IsDivision(division(n - 1), bytes, n - 1)
    BY <1>1, <2>1
  <2> HIDE DEF division
  <2>3. division(n)[n - 1] = division(n - 1)[n - 1]  BY <2>1, <2>2, DivisionUnique
  <2>4. division(n)[n] = DividedByte(bytes[n])[division(n)[n - 1]]
    BY <2>1, <2>2 DEF IsDivision
  <2> QED  BY <2>1, <2>3, <2>4
<1>4. r = step(r)
  <2>1. r = [n \in Nat |-> r[n]]  OBVIOUS
  <2> HIDE DEF r
  <2> QED  BY <1>2, <1>3, <2>1
<1>5. register = step(register)
  <2>1. \E s : s = step(s)  BY <1>4
  <2> HIDE DEF r, step
  <2> QED  BY <2>1
<1>6. \A n : Remainder(bytes, n) = register[n]  BY DEF Remainder
<1> HIDE DEF register
<1>7. register[0] = 0..31  BY <1>5
<1>8. ASSUME NEW n \in Nat
      PROVE  register[n + 1] = DividedByte(bytes[n + 1])[register[n]]
  <2>1. n + 1 \in Nat /\ n + 1 # 0 /\ (n + 1) - 1 = n  OBVIOUS
  <2> QED  BY <1>5, <2>1
<1> QED  BY <1>6, <1>7, <1>8

\* Remainders are words.
LEMMA RemainderWord ==
  ASSUME NEW bytes \in Seq(Byte)
  PROVE  \A n \in Nat : n <= Len(bytes) => Remainder(bytes, n) \in Word32
<1> DEFINE T == {n \in Nat : n <= Len(bytes) => Remainder(bytes, n) \in Word32}
<1>1. 0 \in T
  <2>1. 0..31 \in Word32  BY DEF Word32
  <2> QED  BY <2>1, RemainderIs
<1>2. ASSUME NEW n \in Nat, n \in T PROVE n + 1 \in T
  <2> SUFFICES ASSUME n + 1 <= Len(bytes) PROVE Remainder(bytes, n + 1) \in Word32
    OBVIOUS
  <2>1. n <= Len(bytes) /\ n + 1 \in 1..Len(bytes)  BY LenProperties
  <2>2. bytes[n + 1] \in Byte  BY <2>1
  <2>3. Remainder(bytes, n) \in Word32  BY <1>2, <2>1
  <2> QED  BY <2>2, <2>3, RemainderIs, ByteWord
<1> HIDE DEF T
<1>3. Nat \subseteq T  BY <1>1, <1>2, EveryNumber
<1> QED  BY <1>3 DEF T

\* Every number is a number of eights and a rest.
LEMMA Eights ==
  ASSUME NEW k \in Nat
  PROVE  \E q \in Nat, j \in 0..7 : k = 8 * q + j
<1>1. k \div 8 \in Nat /\ k - 8 * (k \div 8) \in 0..7
      /\ k = 8 * (k \div 8) + (k - 8 * (k \div 8))
  OBVIOUS
<1> QED  BY <1>1

LEMMA EightsAre ==
  ASSUME NEW q \in Nat, NEW j \in 0..7
  PROVE  (8 * q + j) % 8 = j /\ (8 * q + j) \div 8 = q
OBVIOUS

\* The bits of bytes, in the order in which they are sent and taken in.
BitAt(bytes, k) == k % 8 \in bytes[1 + k \div 8]

\* x are the registers of the division of m bytes, bit by bit.
IsBitRun(x, bytes, m) ==
  /\ x \in [0..(8 * m) -> Word32]
  /\ x[0] = 0..31 /\ x[8 * m] = Remainder(bytes, m)
  /\ \A k \in 0..(8 * m - 1) : x[k + 1] = Divided(x[k], BitAt(bytes, k))

\* Bytes are taken in bit by bit.
LEMMA BitRun ==
  ASSUME NEW bytes \in Seq(Byte)
  PROVE  \E x : IsBitRun(x, bytes, Len(bytes))
<1> DEFINE T == {m \in Nat : m <= Len(bytes) => \E x : IsBitRun(x, bytes, m)}
<1>1. 0 \in T
  <2> DEFINE x == [k \in 0..0 |-> 0..31]
  <2>1. 0..31 \in Word32  BY DEF Word32
  <2>2. 8 * 0 = 0 /\ 0..(0 - 1) = {}  OBVIOUS
  <2>3. x \in [0..(8 * 0) -> Word32]  BY <2>1, <2>2
  <2>4. x[0] = 0..31  OBVIOUS
  <2> HIDE DEF x
  <2>5. IsBitRun(x, bytes, 0)  BY <2>2, <2>3, <2>4, RemainderIs DEF IsBitRun
  <2> QED  BY <2>5
<1>2. ASSUME NEW m \in Nat, m \in T PROVE m + 1 \in T
  <2> SUFFICES ASSUME m + 1 <= Len(bytes) PROVE \E y : IsBitRun(y, bytes, m + 1)
    OBVIOUS
  <2>1. m <= Len(bytes) /\ m + 1 \in 1..Len(bytes)  BY LenProperties
  <2>2. PICK x : IsBitRun(x, bytes, m)  BY <1>2, <2>1
  <2>3. bytes[m + 1] \in Byte  BY <2>1
  <2>4. x[8 * m] \in Word32
    <3>1. 8 * m \in 0..(8 * m)  OBVIOUS
    <3> QED  BY <3>1, <2>2 DEF IsBitRun
  <2>5. PICK g \in [0..8 -> Word32] :
          /\ g[0] = x[8 * m] /\ g[8] = DividedByte(bytes[m + 1])[x[8 * m]]
          /\ \A j \in 0..7 : g[j + 1] = Divided(g[j], j \in bytes[m + 1])
    BY <2>3, <2>4, ByteRun
  <2> DEFINE y == [k \in 0..(8 * (m + 1)) |-> IF k <= 8 * m THEN x[k] ELSE g[k - 8 * m]]
  <2>6. \A k \in 0..(8 * m) : y[k] = x[k]  OBVIOUS
  <2>7. \A j \in 0..8 : y[8 * m + j] = g[j]
    <3> SUFFICES ASSUME NEW j \in 0..8 PROVE y[8 * m + j] = g[j]  OBVIOUS
    <3>1. 8 * m + j \in 0..(8 * (m + 1)) /\ (8 * m + j) - 8 * m = j  OBVIOUS
    <3>2. CASE j = 0
      <4>1. 8 * m + j = 8 * m /\ 8 * m <= 8 * m  BY <3>2
      <4> QED  BY <3>1, <3>2, <4>1, <2>5
    <3>3. CASE j # 0
      <4>1. ~(8 * m + j <= 8 * m)  BY <3>3
      <4> QED  BY <3>1, <4>1
    <3> QED  BY <3>2, <3>3
  <2>8. y \in [0..(8 * (m + 1)) -> Word32]
    <3> SUFFICES ASSUME NEW k \in 0..(8 * (m + 1)) PROVE y[k] \in Word32  OBVIOUS
    <3>1. CASE k <= 8 * m
      <4>1. k \in 0..(8 * m)  BY <3>1
      <4> QED  BY <4>1, <2>2, <2>6 DEF IsBitRun
    <3>2. CASE ~(k <= 8 * m)
      <4>1. k - 8 * m \in 0..8 /\ 8 * m + (k - 8 * m) = k  BY <3>2
      <4> QED  BY <4>1, <2>5, <2>7
    <3> QED  BY <3>1, <3>2
  <2> HIDE DEF y
  <2>9. y[0] = 0..31
    <3>1. 0 \in 0..(8 * m)  OBVIOUS
    <3> QED  BY <3>1, <2>2, <2>6 DEF IsBitRun
  <2>10. y[8 * (m + 1)] = Remainder(bytes, m + 1)
    <3>1. 8 * (m + 1) = 8 * m + 8 /\ 8 \in 0..8  OBVIOUS
    <3>2. y[8 * (m + 1)] = DividedByte(bytes[m + 1])[x[8 * m]]  BY <3>1, <2>5, <2>7
    <3> QED  BY <3>2, <2>2, RemainderIs DEF IsBitRun
  <2>11. ASSUME NEW k \in 0..(8 * (m + 1) - 1)
         PROVE  y[k + 1] = Divided(y[k], BitAt(bytes, k))
    <3>1. CASE k < 8 * m
      <4>1. k \in 0..(8 * m - 1) /\ k \in 0..(8 * m) /\ k + 1 \in 0..(8 * m)  BY <3>1
      <4> QED  BY <4>1, <2>2, <2>6 DEF IsBitRun
    <3>2. CASE ~(k < 8 * m)
      <4>1. PICK j \in 0..7 : k = 8 * m + j
        <5>1. k - 8 * m \in 0..7 /\ k = 8 * m + (k - 8 * m)  BY <3>2
        <5> QED  BY <5>1
      <4>2. k % 8 = j /\ 1 + k \div 8 = m + 1  BY <4>1
      <4>3. k + 1 = 8 * m + (j + 1) /\ j \in 0..8 /\ j + 1 \in 0..8  BY <4>1
      <4>4. y[k] = g[j] /\ y[k + 1] = g[j + 1]  BY <4>1, <4>3, <2>7
      <4>5. BitAt(bytes, k) = (j \in bytes[m + 1])  BY <4>2 DEF BitAt
      <4> QED  BY <4>4, <4>5, <2>5
    <3> QED  BY <3>1, <3>2
  <2>12. IsBitRun(y, bytes, m + 1)  BY <2>8, <2>9, <2>10, <2>11 DEF IsBitRun
  <2> QED  BY <2>12
<1> HIDE DEF T
<1>3. Nat \subseteq T  BY <1>1, <1>2, EveryNumber
<1>4. Len(bytes) \in Nat /\ Len(bytes) <= Len(bytes)  BY LenProperties
<1>5. \E x : IsBitRun(x, bytes, Len(bytes))  BY <1>3, <1>4 DEF T
<1> QED  BY <1>5

-----------------------------------------------------------------------------
(* Damage *)

\* The sum that is sent with a body.
Sum(bytes) == Stored(Inverted(Remainder(bytes, Len(bytes))))

\* A function of the first numbers is a sequence.
LEMMA BytesOf ==
  ASSUME NEW n \in Nat, NEW f \in [1..n -> Byte]
  PROVE  f \in Seq(Byte) /\ Len(f) = n
<1>1. f \in Seq(Byte)  BY SeqDef
<1>2. Len(f) \in Nat /\ DOMAIN f = 1..Len(f)  BY <1>1, LenProperties
<1>3. 1..n = 1..Len(f)  BY <1>2
<1> QED  BY <1>1, <1>2, <1>3

\* A word in memory.
LEMMA StoredIs ==
  ASSUME NEW w
  PROVE  Stored(w) \in Seq(Byte) /\ Len(Stored(w)) = 4
<1>1. Stored(w) \in [1..4 -> Byte]  BY DEF Stored, Byte
<1>2. 4 \in Nat  OBVIOUS
<1> QED  BY <1>1, <1>2, BytesOf

\* Bit k of a word in memory.
LEMMA StoredBit ==
  ASSUME NEW w, NEW k \in 0..31
  PROVE  BitAt(Stored(w), k) <=> k \in w
<1>1. 1 + k \div 8 \in 1..4 /\ k % 8 \in 0..7 /\ 8 * ((1 + k \div 8) - 1) + (k % 8) = k
  <2>1. k \div 8 \in 0..3  OBVIOUS
  <2>2. k % 8 \in 0..7  OBVIOUS
  <2>3. k = 8 * (k \div 8) + (k % 8)  OBVIOUS
  <2> QED  BY <2>1, <2>2, <2>3
<1> QED  BY <1>1 DEF Stored, BitAt

\* What is cut from a frame, its body and its sum.
LEMMA CutBytes ==
  ASSUME NEW f \in Seq(Byte), Len(f) >= 4,
         NEW body, body = SubSeq(f, 1, Len(f) - 4),
         NEW s, s = SubSeq(f, Len(f) - 3, Len(f))
  PROVE  /\ body \in Seq(Byte) /\ Len(body) = Len(f) - 4
         /\ \A i \in 1..Len(body) : body[i] = f[i]
         /\ s \in Seq(Byte) /\ Len(s) = 4
         /\ \A i \in 1..4 : s[i] = f[Len(body) + i]
<1>1. Len(f) \in Nat /\ \A i \in 1..Len(f) : f[i] \in Byte
  BY LenProperties, ElementOfSeq
<1>2. /\ body \in Seq(Byte) /\ Len(body) = Len(f) - 4
      /\ \A i \in 1..Len(body) : body[i] = f[i]
  <2>1. Len(f) - 4 \in Int /\ \A i \in 1..(Len(f) - 4) : f[i] \in Byte  BY <1>1
  <2>2. /\ body \in Seq(Byte)
        /\ Len(body) = IF 1 <= Len(f) - 4 THEN (Len(f) - 4) - 1 + 1 ELSE 0
        /\ \A i \in 1..((Len(f) - 4) - 1 + 1) : body[i] = f[1 + i - 1]
    BY <2>1, SubSeqProperties
  <2>3. Len(body) = Len(f) - 4  BY <1>1, <2>2
  <2>4. ASSUME NEW i \in 1..Len(body) PROVE body[i] = f[i]
    <3>1. i \in 1..((Len(f) - 4) - 1 + 1) /\ 1 + i - 1 = i  BY <1>1, <2>3
    <3> QED  BY <3>1, <2>2
  <2> QED  BY <2>2, <2>3, <2>4
<1>3. /\ s \in Seq(Byte) /\ Len(s) = 4
      /\ \A i \in 1..4 : s[i] = f[Len(body) + i]
  <2>1. Len(f) - 3 \in Int /\ Len(f) \in Int /\ \A i \in (Len(f) - 3)..Len(f) : f[i] \in Byte
    BY <1>1
  <2>2. /\ s \in Seq(Byte)
        /\ Len(s) = IF Len(f) - 3 <= Len(f) THEN Len(f) - (Len(f) - 3) + 1 ELSE 0
        /\ \A i \in 1..(Len(f) - (Len(f) - 3) + 1) : s[i] = f[(Len(f) - 3) + i - 1]
    BY <2>1, SubSeqProperties
  <2>3. Len(s) = 4  BY <1>1, <2>2
  <2>4. ASSUME NEW i \in 1..4 PROVE s[i] = f[Len(body) + i]
    <3>1. i \in 1..(Len(f) - (Len(f) - 3) + 1) /\ (Len(f) - 3) + i - 1 = Len(body) + i
      BY <1>1, <1>2
    <3> QED  BY <3>1, <2>2
  <2> QED  BY <2>2, <2>3, <2>4
<1> QED  BY <1>2, <1>3

\* A body and its sum make a frame, from which both can be taken again.
LEMMA FrameParts ==
  ASSUME NEW body \in Seq(Byte), NEW s \in Seq(Byte), Len(s) = 4
  PROVE  \A f : f = body \o s =>
           /\ f \in Seq(Byte) /\ Len(f) = Len(body) + 4
           /\ SubSeq(f, 1, Len(f) - 4) = body
           /\ SubSeq(f, Len(f) - 3, Len(f)) = s
<1>0. PICK f : f = body \o s  OBVIOUS
<1>1. /\ f \in Seq(Byte) /\ Len(f) = Len(body) + Len(s)
      /\ \A i \in 1..(Len(body) + Len(s)) :
           f[i] = IF i <= Len(body) THEN body[i] ELSE s[i - Len(body)]
  BY <1>0, ConcatProperties
<1>2. Len(body) \in Nat /\ Len(f) = Len(body) + 4 /\ Len(f) >= 4 /\ Len(f) - 4 = Len(body)
  BY <1>1, LenProperties
<1>3. PICK b, t : b = SubSeq(f, 1, Len(f) - 4) /\ t = SubSeq(f, Len(f) - 3, Len(f))
  OBVIOUS
<1>4. /\ b \in Seq(Byte) /\ Len(b) = Len(body)
      /\ \A i \in 1..Len(b) : b[i] = f[i]
      /\ t \in Seq(Byte) /\ Len(t) = 4
      /\ \A i \in 1..4 : t[i] = f[Len(b) + i]
  BY <1>1, <1>2, <1>3, CutBytes
<1>5. ASSUME NEW i \in 1..Len(b) PROVE b[i] = body[i]
  <2>1. i \in 1..(Len(body) + Len(s)) /\ i <= Len(body)  BY <1>2, <1>4
  <2> QED  BY <2>1, <1>1, <1>4
<1>6. ASSUME NEW i \in 1..Len(t) PROVE t[i] = s[i]
  <2>1. i \in 1..4 /\ Len(body) + i \in 1..(Len(body) + Len(s))
        /\ ~(Len(body) + i <= Len(body)) /\ (Len(body) + i) - Len(body) = i
    BY <1>2, <1>4
  <2> QED  BY <2>1, <1>1, <1>4
<1>7. b = body /\ t = s  BY <1>4, <1>5, <1>6, SeqEqual
<1> QED  BY <1>0, <1>1, <1>2, <1>3, <1>7

\* Where the bits of a frame are in its body and its sum.
AreCut(body, s, f) ==
  /\ body \in Seq(Byte) /\ Len(body) = Len(f) - 4
  /\ s \in Seq(Byte) /\ Len(s) = 4
  /\ \A k \in 0..(8 * Len(body) - 1) : BitAt(body, k) <=> BitAt(f, k)
  /\ \A k \in 0..31 : BitAt(s, k) <=> BitAt(f, 8 * Len(body) + k)

LEMMA CutBits ==
  ASSUME NEW f \in Seq(Byte), Len(f) >= 4,
         NEW body, body = SubSeq(f, 1, Len(f) - 4),
         NEW s, s = SubSeq(f, Len(f) - 3, Len(f))
  PROVE  AreCut(body, s, f)
<1>2. /\ body \in Seq(Byte) /\ Len(body) = Len(f) - 4
      /\ \A i \in 1..Len(body) : body[i] = f[i]
  BY CutBytes
<1>3. /\ s \in Seq(Byte) /\ Len(s) = 4
      /\ \A i \in 1..4 : s[i] = f[Len(body) + i]
  BY CutBytes
<1>4. Len(body) \in Nat  BY <1>2, LenProperties
<1>5. ASSUME NEW k \in 0..(8 * Len(body) - 1) PROVE BitAt(body, k) <=> BitAt(f, k)
  <2>1. 1 + k \div 8 \in 1..Len(body)  BY <1>4
  <2> QED  BY <2>1, <1>2 DEF BitAt
<1>6. ASSUME NEW k \in 0..31 PROVE BitAt(s, k) <=> BitAt(f, 8 * Len(body) + k)
  <2>1. PICK q \in Nat, j \in 0..7 : k = 8 * q + j
    <3>1. k \in Nat  OBVIOUS
    <3> QED  BY <3>1, Eights
  <2>2. k % 8 = j /\ k \div 8 = q  BY <2>1, EightsAre
  <2>3. 1 + q \in 1..4 /\ Len(body) + (1 + q) = 1 + (Len(body) + q)
        /\ 8 * Len(body) + k = 8 * (Len(body) + q) + j /\ Len(body) + q \in Nat
    <3>1. \A l \in Nat : /\ 1 + q \in 1..4 /\ l + (1 + q) = 1 + (l + q)
                        /\ 8 * l + k = 8 * (l + q) + j /\ l + q \in Nat
      BY <2>1
    <3> QED  BY <3>1, <1>4
  <2>4. (8 * Len(body) + k) % 8 = j /\ (8 * Len(body) + k) \div 8 = Len(body) + q
    BY <2>3, EightsAre
  <2>5. s[1 + q] = f[1 + (Len(body) + q)]  BY <1>3, <2>3
  <2> QED  BY <2>2, <2>4, <2>5 DEF BitAt
<1> QED  BY <1>2, <1>3, <1>5, <1>6 DEF AreCut

\* The bits of a frame hit by a burst.
LEMMA FlippedBits ==
  ASSUME NEW f \in Seq(Byte), NEW n \in Nat, NEW p
  PROVE  /\ Flipped(f, n, p) \in Seq(Byte) /\ Len(Flipped(f, n, p)) = Len(f)
         /\ \A k \in 0..(8 * Len(f) - 1) :
              BitAt(Flipped(f, n, p), k) <=> (BitAt(f, k) <=> k - n \notin p)
<1> DEFINE g == Flipped(f, n, p)
<1>1. Len(f) \in Nat  BY LenProperties
<1>2. g \in [1..Len(f) -> Byte]
  <2> SUFFICES ASSUME NEW i \in 1..Len(f)
               PROVE  SymDiff(f[i], {k \in 0..7 : 8 * (i - 1) + k - n \in p}) \in Byte
    BY DEF Flipped
  <2>1. f[i] \in Byte  BY ElementOfSeq
  <2> QED  BY <2>1 DEF Byte, SymDiff
<1>3. g \in Seq(Byte) /\ Len(g) = Len(f)
  <2> HIDE DEF g
  <2> QED  BY <1>1, <1>2, BytesOf
<1>4. ASSUME NEW k \in 0..(8 * Len(f) - 1)
      PROVE  BitAt(g, k) <=> (BitAt(f, k) <=> k - n \notin p)
  <2>1. 1 + k \div 8 \in 1..Len(f) /\ k % 8 \in 0..7  BY <1>1
  <2>2. 8 * ((1 + k \div 8) - 1) + (k % 8) = k
    <3>1. k \in Nat  BY <1>1
    <3> QED  BY <3>1
  <2>3. g[1 + k \div 8]
          = SymDiff(f[1 + k \div 8], {j \in 0..7 : 8 * ((1 + k \div 8) - 1) + j - n \in p})
    BY <2>1 DEF Flipped
  <2>4. k % 8 \in {j \in 0..7 : 8 * ((1 + k \div 8) - 1) + j - n \in p} <=> k - n \in p
    BY <2>1, <2>2
  <2> HIDE DEF g
  <2> QED  BY <2>3, <2>4 DEF BitAt, SymDiff
<1> QED  BY <1>3, <1>4

\* The difference of two registers.
LEMMA DividedDiffers ==
  ASSUME NEW v, NEW w, NEW a \in BOOLEAN, NEW b \in BOOLEAN
  PROVE  SymDiff(Divided(v, a), Divided(w, b)) = Divided(SymDiff(v, w), a # b)
<1> DEFINE low(c) == IF c THEN {0} ELSE {}
<1>1. \A u : \A c \in BOOLEAN : Divided(u, c) = Zero(SymDiff(u, low(c)))
  BY DividedIsZero
<1>2. (a # b) \in BOOLEAN  OBVIOUS
<1>3. SymDiff(low(a), low(b)) = low(a # b)
  <2>1. CASE a = b  BY <2>1, XorCancels
  <2>2. CASE a # b
    <3>1. SymDiff({0}, {}) = {0} /\ SymDiff({}, {0}) = {0}  BY DEF SymDiff
    <3> QED  BY <2>2, <3>1
  <2> QED  BY <2>1, <2>2
<1> HIDE DEF low
<1>4. SymDiff(SymDiff(v, low(a)), SymDiff(w, low(b))) = SymDiff(SymDiff(v, w), low(a # b))
  BY <1>3, XorSwaps
<1>5. SymDiff(Zero(SymDiff(v, low(a))), Zero(SymDiff(w, low(b))))
        = Zero(SymDiff(SymDiff(v, w), low(a # b)))
  BY <1>4, ZeroLinear
<1> QED  BY <1>1, <1>2, <1>5

\* x and y are the registers of two divisions of m bits, those in a and in b being 1, which
\* differ where a burst at bit n hit them.
AreHit(x, y, a, b, m, n, p) ==
  /\ x \in [0..m -> Word32] /\ y \in [0..m -> Word32] /\ x[0] = y[0]
  /\ \A k \in 0..(m - 1) : x[k + 1] = Divided(x[k], k \in a)
  /\ \A k \in 0..(m - 1) : y[k + 1] = Divided(y[k], k \in b)
  /\ \A k \in 0..(m - 1) : k \in b <=> (k \in a <=> k - n \notin p)

\* The bits that a burst hits behind the first m.
Rest(m, n, p) == {j \in 0..31 : (m + j) - n \in p}

\* What is left of the burst does not make the registers equal.
LEMMA DifferenceStays ==
  ASSUME NEW m \in Nat, NEW n \in Nat, n <= m + 31,
         NEW p, 0 \in p, p \subseteq 0..31,
         NEW x, NEW y, NEW a, NEW b, AreHit(x, y, a, b, m, n, p)
  PROVE  SymDiff(x[m], y[m]) # Rest(m, n, p)
<1>0. /\ x \in [0..m -> Word32] /\ y \in [0..m -> Word32] /\ x[0] = y[0]
      /\ \A k \in 0..(m - 1) : /\ x[k + 1] = Divided(x[k], k \in a)
                               /\ y[k + 1] = Divided(y[k], k \in b)
                               /\ k \in b <=> (k \in a <=> k - n \notin p)
  <2>1. /\ x \in [0..m -> Word32] /\ y \in [0..m -> Word32] /\ x[0] = y[0]
    BY DEF AreHit
  <2>2. ASSUME NEW k \in 0..(m - 1)
        PROVE  /\ x[k + 1] = Divided(x[k], k \in a)
               /\ y[k + 1] = Divided(y[k], k \in b)
               /\ k \in b <=> (k \in a <=> k - n \notin p)
    <3>1. \A i \in 0..(m - 1) : x[i + 1] = Divided(x[i], i \in a)  BY Zenon DEF AreHit
    <3>2. \A i \in 0..(m - 1) : y[i + 1] = Divided(y[i], i \in b)  BY Zenon DEF AreHit
    <3>3. \A i \in 0..(m - 1) : i \in b <=> (i \in a <=> i - n \notin p)  BY DEF AreHit
    <3> QED  BY <3>1, <3>2, <3>3
  <2> QED  BY <2>1, <2>2
<1> DEFINE Left(k) == {j \in 0..31 : (k + j) - n \in p}
           d(k) == SymDiff(x[k], y[k])
           T == {k \in Nat : k <= m => /\ k <= n => d(k) = {}
                                       /\ k >= n => SymDiff(d(k), Left(k)) # {}}
\* The burst begins.
<1>1. Left(n) # {}
  <2>1. 0 \in 0..31 /\ (n + 0) - n = 0  OBVIOUS
  <2>2. 0 \in Left(n)  BY <2>1
  <2> QED  BY <2>2
<1>2. ASSUME NEW k \in Nat, d(k) = {}, k = n PROVE SymDiff(d(k), Left(k)) # {}
  <2> HIDE DEF d, Left
  <2>1. SymDiff({}, Left(n)) = Left(n)  BY XorCommutes, XorCancels
  <2> QED  BY <1>1, <1>2, <2>1
\* A bit is taken in by both.
<1>3. ASSUME NEW k \in Nat, k + 1 <= m
      PROVE  d(k + 1) = Divided(d(k), k - n \in p)
  <2>1. k \in 0..(m - 1)  BY <1>3
  <2>2. (k \in a) \in BOOLEAN /\ (k \in b) \in BOOLEAN  OBVIOUS
  <2>3. d(k + 1) = SymDiff(Divided(x[k], k \in a), Divided(y[k], k \in b))  BY <1>0, <2>1
  <2>4. ((k \in a) # (k \in b)) = (k - n \in p)
    <3>1. k \in b <=> (k \in a <=> k - n \notin p)  BY <1>0, <2>1
    <3>2. CASE k - n \in p
      <4>1. (k - n \in p) = TRUE  BY <3>2
      <4>2. (k \in a) # (k \in b)  BY <3>1, <3>2
      <4> QED  BY <4>1, <4>2
    <3>3. CASE k - n \notin p
      <4>1. (k - n \in p) = FALSE  BY <3>3
      <4>2. (k \in a) = (k \in b)  BY <3>1, <3>3
      <4> QED  BY <4>1, <4>2
    <3> QED  BY <3>2, <3>3
  <2>5. SymDiff(Divided(x[k], k \in a), Divided(y[k], k \in b))
          = Divided(SymDiff(x[k], y[k]), (k \in a) # (k \in b))
    <3>1. \A A, B \in BOOLEAN :
            SymDiff(Divided(x[k], A), Divided(y[k], B)) = Divided(SymDiff(x[k], y[k]), A # B)
      BY DividedDiffers
    <3> QED  BY <2>2, <3>1, Zenon
  <2>6. Divided(d(k), (k \in a) # (k \in b)) = Divided(d(k), k - n \in p)
    <3> HIDE DEF d
    <3> QED  BY <2>4
  <2> QED  BY <2>3, <2>5, <2>6, Zenon
\* Before the burst,
<1>4. ASSUME NEW k \in Nat, k + 1 <= m, k < n, d(k) = {}
      PROVE  d(k + 1) = {}
  <2>1. k - n \notin p
    <3>1. k - n \notin 0..31  BY <1>4
    <3> QED  BY <3>1
  <2>2. (k - n \in p) = FALSE  BY <2>1
  <2>3. d(k + 1) = Zero({})  BY <1>3, <1>4, <2>2 DEF Zero
  <2>4. {} \in Word32  BY DEF Word32
  <2> QED  BY <2>3, <2>4, ZeroKeepsDifference
\* and from its first bit on.
<1>5. ASSUME NEW k \in Nat, k + 1 <= m, k >= n, SymDiff(d(k), Left(k)) # {}
      PROVE  SymDiff(d(k + 1), Left(k + 1)) # {}
  <2>1. Left(k) \in Word32  BY DEF Word32
  <2>2. d(k) \in Word32
    <3>1. k \in 0..m  BY <1>5
    <3>2. x[k] \in Word32 /\ y[k] \in Word32  BY <1>0, <3>1
    <3> QED  BY <3>2, WordOfXor
  <2>3. 0 \in Left(k) <=> k - n \in p
    <3>1. 0 \in 0..31 /\ (k + 0) - n = k - n  OBVIOUS
    <3> QED  BY <3>1
  <2>4. Halved(Left(k)) = Left(k + 1)
    <3>1. ASSUME NEW j PROVE j \in Halved(Left(k)) <=> j \in Left(k + 1)
      <4>1. j \in Halved(Left(k)) <=>
              j \in 0..30 /\ j + 1 \in 0..31 /\ (k + (j + 1)) - n \in p
        BY HalvedIs
      <4>2. CASE j \in 0..30
        <5>1. j \in 0..31 /\ j + 1 \in 0..31 /\ (k + (j + 1)) - n = ((k + 1) + j) - n
          BY <4>2
        <5> QED  BY <4>1, <4>2, <5>1
      <4>3. CASE j \notin 0..30
        <5>1. ASSUME j = 31 PROVE ((k + 1) + j) - n \notin p
          <6>1. ((k + 1) + j) - n \notin 0..31  BY <5>1, <1>5
          <6> QED  BY <6>1
        <5>2. j \in 0..31 => j = 31  BY <4>3
        <5> QED  BY <4>1, <4>3, <5>1, <5>2
      <4> QED  BY <4>2, <4>3
    <3> HIDE DEF Left
    <3>2. \A j : j \in Halved(Left(k)) <=> j \in Left(k + 1)  BY <3>1
    <3>3. Halved(Left(k)) \subseteq 0..30  BY DEF Halved
    <3> QED  BY <3>2
  <2>5. d(k + 1) = Divided(d(k), 0 \in Left(k))
    <3>1. (0 \in Left(k)) = (k - n \in p)  BY <2>3
    <3>2. d(k + 1) = Divided(d(k), k - n \in p)  BY <1>3, <1>5
    <3> HIDE DEF d, Left
    <3> QED  BY <3>1, <3>2
  <2> HIDE DEF d, Left
  <2>6. SymDiff(d(k + 1), Left(k + 1)) = Zero(SymDiff(d(k), Left(k)))
    BY <2>1, <2>4, <2>5, TakenEarly
  <2>7. SymDiff(d(k), Left(k)) \in Word32  BY <2>1, <2>2, WordOfXor
  <2> QED  BY <1>5, <2>6, <2>7, ZeroKeepsDifference
<1>6. 0 \in T
  <2>1. d(0) = {}
    <3>1. SymDiff(x[0], x[0]) = {}  BY XorCancels
    <3> QED  BY <1>0, <3>1
  <2> HIDE DEF d, Left
  <2>2. 0 >= n => 0 = n  OBVIOUS
  <2> QED  BY <2>1, <2>2, <1>2
<1>7. ASSUME NEW k \in Nat, k \in T PROVE k + 1 \in T
  <2> HIDE DEF d, Left
  <2> SUFFICES ASSUME k + 1 <= m
               PROVE  /\ k + 1 <= n => d(k + 1) = {}
                      /\ k + 1 >= n => SymDiff(d(k + 1), Left(k + 1)) # {}
    OBVIOUS
  <2>1. k <= m /\ (k <= n => d(k) = {}) /\ (k >= n => SymDiff(d(k), Left(k)) # {})
    BY <1>7
  <2>2. CASE k < n
    <3>0. k <= n  BY <2>2
    <3>1. d(k + 1) = {}  BY <1>4, <2>1, <2>2, <3>0
    <3>2. k + 1 >= n => k + 1 = n  BY <2>2
    <3> QED  BY <1>2, <3>1, <3>2
  <2>3. CASE ~(k < n)
    <3>1. k >= n /\ ~(k + 1 <= n)  BY <2>3
    <3> QED  BY <1>5, <2>1, <3>1
  <2> QED  BY <2>2, <2>3
<1>8. m \in T
  <2> HIDE DEF T
  <2>1. Nat \subseteq T  BY <1>6, <1>7, EveryNumber
  <2> QED  BY <2>1
<1>9. CASE m >= n
  <2> HIDE DEF d, Left
  <2>1. SymDiff(d(m), Left(m)) # {}  BY <1>8, <1>9
  <2>2. d(m) # Left(m)  BY <2>1, XorCancels
  <2> QED  BY <2>2 DEF d, Left, Rest
<1>10. CASE ~(m >= n)
  <2>1. d(m) = {}
    <3> HIDE DEF d, Left
    <3>1. m <= n /\ m <= m  BY <1>10
    <3> QED  BY <1>8, <3>1
  <2>2. n - m \in 0..31 /\ (m + (n - m)) - n = 0  BY <1>10
  <2>3. n - m \in Left(m)  BY <2>2
  <2> HIDE DEF d, Left
  <2>4. d(m) # Left(m)  BY <2>1, <2>3
  <2> QED  BY <2>4 DEF d, Left, Rest
<1> QED  BY <1>9, <1>10

\* A burst is noticed wherever it lies.
LEMMA BurstNoticed ==
  ASSUME NEW body \in Seq(Byte), NEW n \in 0..(8 * (Len(body) + 4) - 1),
         NEW p, 0 \in p, p \subseteq 0..31
  PROVE  \A f, g, c : /\ f = body \o Sum(body) /\ g = Flipped(f, n, p)
                      /\ c = SubSeq(g, 1, Len(g) - 4)
                      => g # f /\ Sum(c) # SubSeq(g, Len(g) - 3, Len(g))
<1>0. SUFFICES ASSUME NEW f, NEW g, NEW c,
                    f = body \o Sum(body), g = Flipped(f, n, p),
                    c = SubSeq(g, 1, Len(g) - 4)
             PROVE  g # f /\ Sum(c) # SubSeq(g, Len(g) - 3, Len(g))
  OBVIOUS
<1>1. Sum(body) \in Seq(Byte) /\ Len(Sum(body)) = 4  BY StoredIs DEF Sum
<1>2. /\ f \in Seq(Byte) /\ Len(f) = Len(body) + 4
      /\ SubSeq(f, 1, Len(f) - 4) = body /\ SubSeq(f, Len(f) - 3, Len(f)) = Sum(body)
  BY <1>0, <1>1, FrameParts
<1>3. Len(body) \in Nat /\ n \in Nat  BY LenProperties
<1>4. /\ g \in Seq(Byte) /\ Len(g) = Len(f)
      /\ \A k \in 0..(8 * Len(f) - 1) : BitAt(g, k) <=> (BitAt(f, k) <=> k - n \notin p)
  BY <1>0, <1>2, <1>3, FlippedBits
<1> DEFINE m == 8 * Len(body)
<1>5. PICK s, t : s = SubSeq(f, Len(f) - 3, Len(f)) /\ t = SubSeq(g, Len(g) - 3, Len(g))
  OBVIOUS
<1>6. /\ \A k \in 0..(m - 1) : BitAt(body, k) <=> BitAt(f, k)
      /\ \A k \in 0..31 : BitAt(s, k) <=> BitAt(f, m + k)
  <2>1. f \in Seq(Byte) /\ Len(f) >= 4  BY <1>2, <1>3
  <2>2. PICK b : b = SubSeq(f, 1, Len(f) - 4)  OBVIOUS
  <2>3. AreCut(b, s, f)  BY <1>5, <2>1, <2>2, CutBits
  <2>4. b = body  BY <1>2, <2>2
  <2> QED  BY <2>3, <2>4 DEF AreCut
<1>7. /\ c \in Seq(Byte) /\ Len(c) = Len(body)
      /\ \A k \in 0..(m - 1) : BitAt(c, k) <=> BitAt(g, k)
      /\ \A k \in 0..31 : BitAt(t, k) <=> BitAt(g, m + k)
  <2>1. Len(g) >= 4 /\ Len(g) - 4 = Len(body)  BY <1>2, <1>3, <1>4
  <2>2. /\ c \in Seq(Byte) /\ Len(c) = Len(g) - 4
        /\ \A k \in 0..(8 * Len(c) - 1) : BitAt(c, k) <=> BitAt(g, k)
        /\ \A k \in 0..31 : BitAt(t, k) <=> BitAt(g, 8 * Len(c) + k)
    <3>1. c = SubSeq(g, 1, Len(g) - 4) /\ t = SubSeq(g, Len(g) - 3, Len(g))
          /\ g \in Seq(Byte) /\ Len(g) >= 4
      BY <1>0, <1>4, <1>5, <2>1
    <3>2. AreCut(c, t, g)  BY <3>1, CutBits
    <3> QED  BY <3>2 DEF AreCut
  <2>3. Len(c) = Len(body) /\ 8 * Len(c) = m  BY <2>1, <2>2
  <2> HIDE DEF m
  <2> QED  BY <2>2, <2>3
\* A bit is flipped.
<1>8. g # f
  <2>1. n \in 0..(8 * Len(f) - 1) /\ n - n = 0  BY <1>2, <1>3
  <2>2. BitAt(g, n) <=> ~BitAt(f, n)  BY <1>4, <2>1
  <2> QED  BY <2>2
\* The registers of both bodies.
<1>9. PICK x : IsBitRun(x, body, Len(body))  BY BitRun
<1>10. PICK y : IsBitRun(y, c, Len(body))  BY <1>7, BitRun
<1> DEFINE a == {k \in 0..(m - 1) : BitAt(body, k)}
           b == {k \in 0..(m - 1) : BitAt(c, k)}
<1>11. SymDiff(x[m], y[m]) # Rest(m, n, p)
  <2>1. m \in Nat /\ n <= m + 31  BY <1>3
  <2>2. /\ x \in [0..m -> Word32] /\ y \in [0..m -> Word32] /\ x[0] = y[0]
    BY <1>9, <1>10 DEF IsBitRun
  <2>3. ASSUME NEW k \in 0..(m - 1)
        PROVE  /\ x[k + 1] = Divided(x[k], k \in a) /\ y[k + 1] = Divided(y[k], k \in b)
               /\ k \in b <=> (k \in a <=> k - n \notin p)
    <3>1. (k \in a <=> BitAt(body, k)) /\ (k \in b <=> BitAt(c, k))  OBVIOUS
    <3>2. x[k + 1] = Divided(x[k], BitAt(body, k)) /\ y[k + 1] = Divided(y[k], BitAt(c, k))
      BY <1>9, <1>10 DEF IsBitRun
    <3>3. k \in 0..(8 * Len(f) - 1)  BY <1>2, <1>3
    <3>4. BitAt(g, k) <=> (BitAt(f, k) <=> k - n \notin p)  BY <1>4, <3>3
    <3>5. (k \in a <=> BitAt(f, k)) /\ (k \in b <=> BitAt(g, k))  BY <1>6, <1>7, <3>1
    <3>6. x[k + 1] = Divided(x[k], k \in a)
      <4>1. (k \in a) = BitAt(body, k)  BY <3>1 DEF BitAt
      <4> HIDE DEF a
      <4> QED  BY <4>1, <3>2
    <3>7. y[k + 1] = Divided(y[k], k \in b)
      <4>1. (k \in b) = BitAt(c, k)  BY <3>1 DEF BitAt
      <4> HIDE DEF b
      <4> QED  BY <4>1, <3>2
    <3> QED  BY <3>4, <3>5, <3>6, <3>7
  <2>4. AreHit(x, y, a, b, m, n, p)
    <3> HIDE DEF m, a, b
    <3> QED  BY <2>2, <2>3 DEF AreHit
  <2> HIDE DEF m, a, b
  <2> QED  BY <1>3, <2>1, <2>4, DifferenceStays
\* If the sum were right the difference would be what the burst has left.
<1>12. ASSUME Sum(c) = t PROVE FALSE
  <2>1. x[m] = Remainder(body, Len(body)) /\ y[m] = Remainder(c, Len(c))
    BY <1>7, <1>9, <1>10 DEF IsBitRun
  <2>2. x[m] \in Word32 /\ y[m] \in Word32
    <3>1. \A bytes \in Seq(Byte) : Remainder(bytes, Len(bytes)) \in Word32
      <4> SUFFICES ASSUME NEW bytes \in Seq(Byte)
                   PROVE  Remainder(bytes, Len(bytes)) \in Word32
        OBVIOUS
      <4>1. Len(bytes) \in Nat /\ Len(bytes) <= Len(bytes)  BY LenProperties
      <4> QED  BY <4>1, RemainderWord
    <3> HIDE DEF m
    <3> QED  BY <1>7, <2>1, <3>1
  <2>3. ASSUME NEW j \in 0..31
        PROVE  j \in SymDiff(x[m], y[m]) <=> (m + j) - n \in p
    <3>1. BitAt(s, j) <=> j \notin x[m]
      <4>1. s = Stored(Inverted(x[m]))  BY <1>2, <1>5, <2>1 DEF Sum
      <4>2. BitAt(s, j) <=> j \in Inverted(x[m])  BY <4>1, StoredBit
      <4> QED  BY <4>2 DEF Inverted, SymDiff
    <3>2. BitAt(t, j) <=> j \notin y[m]
      <4>1. t = Stored(Inverted(y[m]))  BY <1>12, <2>1 DEF Sum
      <4>2. BitAt(t, j) <=> j \in Inverted(y[m])  BY <4>1, StoredBit
      <4> QED  BY <4>2 DEF Inverted, SymDiff
    <3>3. m + j \in 0..(8 * Len(f) - 1)  BY <1>2, <1>3
    <3>4. BitAt(g, m + j) <=> (BitAt(f, m + j) <=> (m + j) - n \notin p)  BY <1>4, <3>3
    <3>5. (BitAt(s, j) <=> BitAt(f, m + j)) /\ (BitAt(t, j) <=> BitAt(g, m + j))  BY <1>6, <1>7
    <3>6. j \in SymDiff(x[m], y[m]) <=> ((j \in x[m]) <=> j \notin y[m])  BY DEF SymDiff
    <3> HIDE DEF m
    <3> QED  BY <3>1, <3>2, <3>4, <3>5, <3>6
  <2>4. SymDiff(x[m], y[m]) \subseteq 0..31  BY <2>2 DEF SymDiff, Word32
  <2> HIDE DEF m
  <2>5. SymDiff(x[m], y[m]) = Rest(m, n, p)  BY <2>3, <2>4 DEF Rest
  <2> QED  BY <1>11, <2>5
<1> QED  BY <1>5, <1>8, <1>12


\* A body of zeros, which a bus that nothing drives delivers, is not its own sum.
LEMMA ZerosNoticed ==
  ASSUME NEW body \in Bodies
  PROVE  \A f, g, c : /\ f = body \o Sum(body) /\ g = Zeros(Len(f))
                      /\ c = SubSeq(g, 1, Len(g) - 4)
                      => g # f /\ Sum(c) # SubSeq(g, Len(g) - 3, Len(g))
<1>0. SUFFICES ASSUME NEW f, NEW g, NEW c,
                    f = body \o Sum(body), g = Zeros(Len(f)), c = SubSeq(g, 1, Len(g) - 4)
             PROVE  g # f /\ Sum(c) # SubSeq(g, Len(g) - 3, Len(g))
  OBVIOUS
<1>1. body \in Seq(Byte) /\ Len(body) \in 1..MaxBody /\ Len(body) \in Nat
  BY CrcAssumption, LenProperties
<1>2. Sum(body) \in Seq(Byte) /\ Len(Sum(body)) = 4  BY StoredIs DEF Sum
<1>3. /\ f \in Seq(Byte) /\ Len(f) = Len(body) + 4
      /\ SubSeq(f, 1, Len(f) - 4) = body /\ SubSeq(f, Len(f) - 3, Len(f)) = Sum(body)
  BY <1>0, <1>1, <1>2, FrameParts
<1>4. \A n \in Nat : /\ Zeros(n) \in Seq(Byte) /\ Len(Zeros(n)) = n
                     /\ \A i \in 1..n : Zeros(n)[i] = {}
  <2> SUFFICES ASSUME NEW n \in Nat
               PROVE  /\ Zeros(n) \in Seq(Byte) /\ Len(Zeros(n)) = n
                      /\ \A i \in 1..n : Zeros(n)[i] = {}
    OBVIOUS
  <2>1. Zeros(n) \in [1..n -> Byte] /\ \A i \in 1..n : Zeros(n)[i] = {}
    BY DEF Zeros, Byte
  <2> QED  BY <2>1, BytesOf
<1>5. /\ g \in Seq(Byte) /\ Len(g) = Len(body) + 4 /\ Len(g) >= 4
      /\ \A i \in 1..Len(g) : g[i] = {}
  <2>1. Len(body) + 4 \in Nat /\ Len(body) + 4 >= 4 /\ g = Zeros(Len(body) + 4)
    BY <1>0, <1>1, <1>3
  <2> QED  BY <1>4, <2>1
<1>6. PICK t : t = SubSeq(g, Len(g) - 3, Len(g))  OBVIOUS
<1>7. /\ c \in Seq(Byte) /\ Len(c) = Len(g) - 4
      /\ \A i \in 1..Len(c) : c[i] = g[i]
      /\ t \in Seq(Byte) /\ Len(t) = 4
      /\ \A i \in 1..4 : t[i] = g[Len(c) + i]
  BY <1>0, <1>5, <1>6, CutBytes
<1>8. c = Zeros(Len(body))
  <2>1. Len(c) = Len(body)  BY <1>1, <1>5, <1>7
  <2>2. \A i \in 1..Len(c) : c[i] = {}  BY <1>1, <1>5, <1>7, <2>1
  <2>3. PICK z : z = Zeros(Len(body))  OBVIOUS
  <2>4. z \in Seq(Byte) /\ Len(z) = Len(c) /\ \A i \in 1..Len(c) : c[i] = z[i]
    BY <1>1, <1>4, <2>1, <2>2, <2>3
  <2>5. c = z  BY <1>7, <2>4, SeqEqual
  <2> QED  BY <2>3, <2>5
<1>9. \A i \in 1..4 : t[i] = {}
  <2>1. \A i \in 1..4 : Len(c) + i \in 1..Len(g)  BY <1>1, <1>5, <1>7
  <2> QED  BY <1>5, <1>7, <2>1
<1>10. ASSUME Sum(c) = t PROVE FALSE
  <2> DEFINE r == Remainder(c, Len(c))
  <2>1. r \in Word32
    <3>1. Len(c) \in Nat /\ Len(c) <= Len(c)  BY <1>1, <1>5, <1>7
    <3> QED  BY <1>7, <3>1, RemainderWord
  <2>2. ASSUME NEW j \in 0..31 PROVE j \in r
    <3>1. 1 + j \div 8 \in 1..4  OBVIOUS
    <3>2. ~BitAt(t, j)  BY <1>9, <3>1 DEF BitAt
    <3>3. BitAt(t, j) <=> j \in Inverted(r)  BY <1>10, StoredBit DEF Sum
    <3> HIDE DEF r
    <3> QED  BY <3>2, <3>3 DEF Inverted, SymDiff
  <2>3. r = 0..31
    <3> HIDE DEF r
    <3> QED  BY <2>1, <2>2 DEF Word32
  <2>4. Preset = 0..31  BY DEF Preset, Inverted, SymDiff
  <2>5. r = Remainder(Zeros(Len(body)), Len(body))
    BY <1>1, <1>5, <1>7, <1>8
  <2> HIDE DEF r
  <2> QED  BY <1>1, <2>3, <2>4, <2>5, CrcAssumption
\* A frame that were all zeros would have been its own sum.
<1>11. ASSUME g = f PROVE FALSE
  <2>1. c = body /\ t = Sum(body)  BY <1>0, <1>3, <1>6, <1>11
  <2> QED  BY <1>10, <2>1
<1> QED  BY <1>6, <1>10, <1>11

\* Whatever becomes of a frame is noticed.
LEMMA DamageNoticed ==
  ASSUME NEW body \in Bodies
  PROVE  \A f, g, c : /\ f = body \o Sum(body) /\ g \in Damaged(f)
                      /\ c = SubSeq(g, 1, Len(g) - 4)
                      => g # f /\ Sum(c) # SubSeq(g, Len(g) - 3, Len(g))
<1>0. SUFFICES ASSUME NEW f, NEW g, NEW c, f = body \o Sum(body), g \in Damaged(f),
                    c = SubSeq(g, 1, Len(g) - 4)
             PROVE  g # f /\ Sum(c) # SubSeq(g, Len(g) - 3, Len(g))
  OBVIOUS
<1>1. body \in Seq(Byte)  BY CrcAssumption
<1>2. Len(f) = Len(body) + 4
  <2>1. Sum(body) \in Seq(Byte) /\ Len(Sum(body)) = 4  BY StoredIs DEF Sum
  <2> QED  BY <1>0, <1>1, <2>1, FrameParts
<1>3. CASE g = Zeros(Len(f))  BY <1>0, <1>3, ZerosNoticed
<1>4. CASE \E n \in 0..(8 * Len(f) - 1), p \in Bursts : g = Flipped(f, n, p)
  <2>1. PICK n \in 0..(8 * (Len(body) + 4) - 1), p \in Bursts : g = Flipped(f, n, p)
    BY <1>2, <1>4
  <2>2. 0 \in p /\ p \subseteq 0..31  BY CrcAssumption
  <2> QED  BY <1>0, <1>1, <2>1, <2>2, BurstNoticed
<1> QED  BY <1>0, <1>3, <1>4 DEF Damaged

-----------------------------------------------------------------------------
(* The specification *)

\* c is the body and g the frame that _rx_link has read when f was written.
Received(f, g, c) ==
  \E body \in Bodies : /\ f = body \o Sum(body)
                       /\ g = f \/ g \in Damaged(f)
                       /\ c = SubSeq(g, 1, Len(g) - 4)

\* Besides the properties: what is computed over, and that what lies on the bus is a
\* body and its sum.
CrcInv ==
  /\ CrcTypeOK
  /\ RegisterIsRemainder
  /\ side \in {"tx", "bus"} => buf \in Bodies
  /\ side = "bus" => frame = buf \o Sum(buf)
  /\ side = "rx" => Received(frame, read, buf)
  /\ PassesIffIntact

\* A frame that reaches the check has a body and a sum.
LEMMA SentIs ==
  ASSUME NEW body \in Bodies
  PROVE  \A f : f = body \o Sum(body) =>
           /\ f \in Seq(Byte) /\ Len(f) = Len(body) + 4
           /\ SubSeq(f, 1, Len(f) - 4) = body
           /\ SubSeq(f, Len(f) - 3, Len(f)) = Sum(body)
<1>1. body \in Seq(Byte)  BY CrcAssumption
<1>2. Sum(body) \in Seq(Byte) /\ Len(Sum(body)) = 4  BY StoredIs DEF Sum
<1> QED  BY <1>1, <1>2, FrameParts

\* What is read is as long as what was sent.
LEMMA DamagedIs ==
  ASSUME NEW f \in Seq(Byte), NEW g \in Damaged(f)
  PROVE  g \in Seq(Byte) /\ Len(g) = Len(f)
<1>1. Len(f) \in Nat  BY LenProperties
<1>2. CASE g = Zeros(Len(f))
  <2>1. Zeros(Len(f)) \in [1..Len(f) -> Byte]  BY DEF Zeros, Byte
  <2> QED  BY <1>1, <1>2, <2>1, BytesOf
<1>3. CASE \E n \in 0..(8 * Len(f) - 1), p \in Bursts : g = Flipped(f, n, p)
  <2>1. PICK n \in 0..(8 * Len(f) - 1), p \in Bursts : g = Flipped(f, n, p)  BY <1>3
  <2>2. n \in Nat  BY <1>1
  <2> QED  BY <2>1, <2>2, FlippedBits
<1> QED  BY <1>2, <1>3 DEF Damaged

\* The check tells a frame that was received from one that was damaged.
LEMMA ReceivedChecked ==
  ASSUME NEW f, NEW g, NEW c, Received(f, g, c)
  PROVE  Sum(c) = SubSeq(g, Len(g) - 3, Len(g)) <=> g = f
<1>1. PICK body \in Bodies : /\ f = body \o Sum(body)
                             /\ g = f \/ g \in Damaged(f)
                             /\ c = SubSeq(g, 1, Len(g) - 4)
  BY DEF Received
<1>2. CASE g = f
  <2>1. c = body /\ SubSeq(f, Len(f) - 3, Len(f)) = Sum(body)  BY <1>1, <1>2, SentIs
  <2> QED  BY <1>2, <2>1
<1>3. CASE g \in Damaged(f)  BY <1>1, <1>3, DamageNoticed
<1> QED  BY <1>1, <1>2, <1>3

LEMMA CrcInvInit == CrcInit => CrcInv
<1> SUFFICES ASSUME CrcInit PROVE CrcInv  OBVIOUS
<1>1. /\ side = "checked" /\ buf = <<>> /\ size = 0 /\ crc = Preset
      /\ frame = <<>> /\ read = <<>> /\ passed = TRUE
  BY DEF CrcInit
<1>2. Preset \in Word32  BY DEF Preset, Inverted, SymDiff, Word32
<1>3. <<>> \in Seq(Byte) /\ Len(<<>>) = 0  OBVIOUS
<1>4. CrcTypeOK  BY <1>1, <1>2, <1>3 DEF CrcTypeOK
<1>5. PassesIffIntact  BY <1>1 DEF PassesIffIntact
<1> QED  BY <1>1, <1>4, <1>5 DEF CrcInv, RegisterIsRemainder

\* The register at the first byte.
LEMMA PresetIs ==
  Preset \in Word32 /\ \A bytes : Remainder(bytes, 0) = Preset
<1>1. Preset = 0..31  BY DEF Preset, Inverted, SymDiff
<1> QED  BY <1>1, RemainderIs DEF Word32

LEMMA NextByteKeeps ==
  ASSUME CrcInv, NextByte
  PROVE  CrcInv'
<1>1. /\ side \in {"tx", "rx"} /\ size > 0
      /\ crc' = SymDiff(crc32_table[Index(crc, buf[Len(buf) - size + 1])], Shifted(crc))
      /\ size' = size - 1
      /\ UNCHANGED <<side, buf, frame, read, passed>>
  BY DEF NextByte, More
<1>2. CrcTypeOK /\ RegisterIsRemainder  BY DEF CrcInv
<1>3. buf \in Seq(Byte) /\ size \in 0..Len(buf) /\ crc \in Word32  BY <1>2 DEF CrcTypeOK
<1>4. PICK n \in Nat : n = Len(buf) - size
  <2>1. Len(buf) \in Nat  BY <1>3, LenProperties
  <2>2. Len(buf) - size \in Nat  BY <1>3, <2>1
  <2> QED  BY <2>2
<1>5. n + 1 \in 1..Len(buf) /\ Len(buf) - size' = n + 1 /\ size' \in 0..Len(buf)
  <2>1. Len(buf) \in Nat  BY <1>3, LenProperties
  <2> QED  BY <1>1, <1>3, <1>4, <2>1
<1>6. buf[n + 1] \in Byte  BY <1>3, <1>5, ElementOfSeq
<1>7. crc' = DividedByte(buf[n + 1])[crc]
  <2>1. crc' = SymDiff(crc32_table[Index(crc, buf[n + 1])], Shifted(crc))  BY <1>1, <1>4
  <2> QED  BY <1>3, <1>6, <2>1, TableStep
<1>8. crc' \in Word32  BY <1>3, <1>6, <1>7, ByteWord
<1>9. crc' = Remainder(buf, n + 1)
  <2>1. crc = Remainder(buf, n)  BY <1>1, <1>2, <1>4 DEF RegisterIsRemainder
  <2> QED  BY <1>7, <2>1, RemainderIs
<1>10. CrcTypeOK'  BY <1>1, <1>2, <1>5, <1>8 DEF CrcTypeOK
<1>11. RegisterIsRemainder'  BY <1>1, <1>5, <1>9 DEF RegisterIsRemainder
<1>12. PassesIffIntact'  BY <1>1 DEF PassesIffIntact
<1> QED  BY <1>1, <1>10, <1>11, <1>12 DEF CrcInv

LEMMA TxLinkKeeps ==
  ASSUME CrcInv, NEW body \in Bodies, TxLink(body)
  PROVE  CrcInv'
<1>1. /\ side' = "tx" /\ buf' = body /\ size' = Len(body) /\ crc' = Preset
      /\ frame' = <<>> /\ read' = <<>> /\ passed' = FALSE
  BY DEF TxLink, Begin
<1>2. body \in Seq(Byte) /\ Len(body) \in Nat  BY CrcAssumption, LenProperties
<1>3. CrcTypeOK'
  <2>1. <<>> \in Seq(Byte) /\ Len(body) \in 0..Len(body)  BY <1>2
  <2> QED  BY <1>1, <1>2, <2>1, PresetIs DEF CrcTypeOK
<1>4. RegisterIsRemainder'
  <2>1. Len(buf') - size' = 0  BY <1>1, <1>2
  <2> QED  BY <1>1, <2>1, PresetIs DEF RegisterIsRemainder
<1> QED  BY <1>1, <1>3, <1>4 DEF CrcInv, PassesIffIntact

LEMMA TxWriteKeeps ==
  ASSUME CrcInv, TxWrite
  PROVE  CrcInv'
<1>1. /\ side = "tx" /\ ~(size > 0) /\ frame' = buf \o Stored(Inverted(crc)) /\ side' = "bus"
      /\ UNCHANGED <<buf, size, crc, read, passed>>
  BY DEF TxWrite, More
<1>2. CrcTypeOK /\ RegisterIsRemainder /\ buf \in Bodies  BY <1>1 DEF CrcInv
<1>3. frame' = buf \o Sum(buf)
  <2>1. Len(buf) \in Nat /\ size \in 0..Len(buf)  BY <1>2, LenProperties DEF CrcTypeOK
  <2>2. Len(buf) - size = Len(buf)  BY <1>1, <2>1
  <2>3. crc = Remainder(buf, Len(buf))  BY <1>1, <1>2, <2>2 DEF RegisterIsRemainder
  <2> QED  BY <1>1, <2>3 DEF Sum
<1>4. frame' \in Seq(Byte)  BY <1>2, <1>3, SentIs
<1>5. CrcTypeOK'  BY <1>1, <1>2, <1>4 DEF CrcTypeOK
<1> QED  BY <1>1, <1>2, <1>3, <1>5 DEF CrcInv, RegisterIsRemainder, PassesIffIntact

LEMMA RxLinkKeeps ==
  ASSUME CrcInv, RxLink
  PROVE  CrcInv'
<1>1. PICK f \in {frame} \cup (IF buf \in Disturbed THEN Damaged(frame) ELSE {}) :
        read' = f /\ Begin("rx", SubSeq(f, 1, Len(f) - 4), Len(f) - 4)
  BY DEF RxLink
<1>2. side = "bus" /\ UNCHANGED <<frame, passed>>  BY DEF RxLink
<1>3. CrcTypeOK /\ buf \in Bodies /\ frame = buf \o Sum(buf)  BY <1>2 DEF CrcInv
<1>4. /\ side' = "rx" /\ read' = f /\ buf' = SubSeq(f, 1, Len(f) - 4)
      /\ size' = Len(f) - 4 /\ crc' = Preset
  BY <1>1 DEF Begin
<1>5. f = frame \/ f \in Damaged(frame)  BY <1>1
<1>6. f \in Seq(Byte) /\ Len(f) >= 4 /\ Len(f) \in Nat
  <2>1. frame \in Seq(Byte) /\ Len(frame) = Len(buf) + 4 /\ Len(buf) \in Nat
    <3>1. buf \in Seq(Byte)  BY CrcAssumption, <1>3
    <3> QED  BY <1>3, <3>1, SentIs, LenProperties
  <2>2. f \in Seq(Byte) /\ Len(f) = Len(frame)  BY <1>5, <2>1, DamagedIs
  <2> QED  BY <2>1, <2>2
<1>7. buf' \in Seq(Byte) /\ Len(buf') = Len(f) - 4  BY <1>4, <1>6, CutBytes
<1>8. Received(frame', read', buf')  BY <1>2, <1>3, <1>4, <1>5 DEF Received
<1>9. CrcTypeOK'
  <2>1. size' \in 0..Len(buf')  BY <1>4, <1>6, <1>7
  <2> QED  BY <1>2, <1>3, <1>4, <1>6, <1>7, <2>1, PresetIs DEF CrcTypeOK
<1>10. RegisterIsRemainder'
  <2>1. Len(buf') - size' = 0  BY <1>4, <1>6, <1>7
  <2> QED  BY <1>4, <2>1, PresetIs DEF RegisterIsRemainder
<1> QED  BY <1>4, <1>8, <1>9, <1>10 DEF CrcInv, PassesIffIntact

LEMMA RxCheckKeeps ==
  ASSUME CrcInv, RxCheck
  PROVE  CrcInv'
<1>1. /\ side = "rx" /\ ~(size > 0) /\ side' = "checked"
      /\ passed' = (Stored(Inverted(crc)) = SubSeq(read, Len(read) - 3, Len(read)))
      /\ UNCHANGED <<buf, size, crc, frame, read>>
  BY DEF RxCheck, More
<1>2. CrcTypeOK /\ RegisterIsRemainder /\ Received(frame, read, buf)  BY <1>1 DEF CrcInv
<1>3. Stored(Inverted(crc)) = Sum(buf)
  <2>1. Len(buf) \in Nat /\ size \in 0..Len(buf)  BY <1>2, LenProperties DEF CrcTypeOK
  <2>2. Len(buf) - size = Len(buf)  BY <1>1, <2>1
  <2>3. crc = Remainder(buf, Len(buf))  BY <1>1, <1>2, <2>2 DEF RegisterIsRemainder
  <2> QED  BY <2>3 DEF Sum
<1>4. passed' <=> read = frame
  <2>1. Sum(buf) = SubSeq(read, Len(read) - 3, Len(read)) <=> read = frame
    BY <1>2, ReceivedChecked
  <2> QED  BY <1>1, <1>3, <2>1
<1>5. passed' \in BOOLEAN  BY <1>1
<1>6. CrcTypeOK'  BY <1>1, <1>2, <1>5 DEF CrcTypeOK
<1>7. PassesIffIntact'  BY <1>1, <1>4 DEF PassesIffIntact
<1> QED  BY <1>1, <1>6, <1>7 DEF CrcInv, RegisterIsRemainder

\* The invariant holds in every reachable state.
THEOREM CrcInvariant == CrcSpec => []CrcInv
<1>1. CrcInv /\ [CrcNext]_crcVars => CrcInv'
  <2> SUFFICES ASSUME CrcInv, [CrcNext]_crcVars PROVE CrcInv'  OBVIOUS
  <2>1. CASE NextByte  BY <2>1, NextByteKeeps
  <2>2. CASE \E body \in Bodies : TxLink(body)  BY <2>2, TxLinkKeeps
  <2>3. CASE TxWrite  BY <2>3, TxWriteKeeps
  <2>4. CASE RxLink  BY <2>4, RxLinkKeeps
  <2>5. CASE RxCheck  BY <2>5, RxCheckKeeps
  <2>6. CASE UNCHANGED crcVars
    BY <2>6 DEF crcVars, CrcInv, CrcTypeOK, RegisterIsRemainder, PassesIffIntact
  <2> QED  BY <2>1, <2>2, <2>3, <2>4, <2>5, <2>6 DEF CrcNext
<1> QED  BY CrcInvInit, <1>1, PTL DEF CrcSpec

\* The loop of fpc_crc stays within what it is computed over and its register within 32
\* bits (fpc_crc.c 76-86), for every body and however a frame is damaged.
THEOREM CrcTypeCorrect == CrcSpec => []CrcTypeOK
<1>1. CrcInv => CrcTypeOK  BY DEF CrcInv
<1> QED  BY CrcInvariant, <1>1, PTL

\* The table and the shift divide: behind every byte of every body, the register of
\* fpc_crc is the remainder of the bytes so far (fpc_crc.c 30-86).
THEOREM RegistersAreRemainders == CrcSpec => []RegisterIsRemainder
<1>1. CrcInv => RegisterIsRemainder  BY DEF CrcInv
<1> QED  BY CrcInvariant, <1>1, PTL

\* _rx_link takes the frame that _tx_link wrote and no other that a burst of up to 32
\* bits, at any bit of any body or of its sum, or a bus at zero makes of it
\* (hcp_tiny.c 226-233, 286-287).
THEOREM FramesPassIffIntact == CrcSpec => []PassesIffIntact
<1>1. CrcInv => PassesIffIntact  BY DEF CrcInv
<1> QED  BY CrcInvariant, <1>1, PTL
=============================================================================
